---------------------------- MODULE Spec2Model ----------------------------
(***************************************************************************)
(* Model of the MLR model base class (esmvaltool.diag_scripts.mlr.models)  *)
(* and of the MLR convenience functions (esmvaltool.diag_scripts.mlr).     *)
(*                                                                         *)
(* Python values are modelled as follows.  A dict is a function whose      *)
(* domain is its set of keys; a dict that keeps insertion order and whose  *)
(* order matters is a sequence of keys.  A list is a sequence.  None is    *)
(* the string "None".  A raised exception is a record [type, msg]; NoErr   *)
(* stands for normal completion.  A cube is the sequence of its ravelled   *)
(* cells; a masked cell is NaN.                                            *)
(***************************************************************************)
EXTENDS Integers, Sequences, FiniteSets, TLC

VARIABLES
    MODELS,      \* MLRModel._MODELS: registered (model_type, class) in dict order
    imported,    \* model modules already imported by _load_mlr_models
    input,       \* arguments handed to the constructor: [cfg, datasets, files]
    phase,       \* "start", "constructed", "failed" (constructor raised)
    self,        \* the MLRModel instance: [cls, cfg, clf, data, datasets, classes, parameters]
    fitted,      \* whether self._clf.predict works without NotFittedError
    saved,       \* prediction cubes written by io.iris_save: set of <<pred_name, pred_type>>
    err,         \* exception raised by the last operation (NoErr if none)
    warnings,    \* logger.warning() records of the last operation
    last,        \* the last operation and its arguments
    result,      \* value returned by the last operation
    everFitted,  \* history: a fit() or grid_search_cv() completed successfully
    MODEL_TYPE,  \* _MODEL_TYPE of every class (None until registered)
    heap         \* objects held by reference (dicts, cubes): identity -> value

vars == <<MODELS, imported, input, phase, self, fitted, saved, err, warnings,
          last, result, everFitted, MODEL_TYPE, heap>>

-----------------------------------------------------------------------------
(* Bounds of the model *)

MaxDatasets == 4     \* feature and label datasets handed to the constructor
MaxCubeSize == 2     \* cells of a cube when all cubes have the same shape
MaxRows == 5         \* raw training rows when cubes have missing cells
MaxMissing == 2      \* the label misses cells among the first MaxMissing rows
MaxAttrDatasets == 2 \* datasets handed to datasets_have_mlr_attributes
MinRows == 2         \* fewest rows of training data the constructor accepts
MaxAncestors == 1    \* datasets read from ancestor files by get_input_data
MaxVariables == 2    \* variables of the configuration of the ERA5 CMORizer
MaxFiles == 2        \* files in the input directory of the ERA5 CMORizer
MaxAnomalyDatasets == 3 \* datasets handed to calculate_anomalies
MaxTimes == 2        \* time steps of the fgco2 cube
MaxCells == 2        \* cells of a time step of the fgco2 cube
MaxJobs == 2         \* largest n_jobs in the options of a pipeline

-----------------------------------------------------------------------------
(* Python basics *)

None == "None"

NaN == -1

NoErr == [type |-> "None", msg |-> ""]

Raise(type, msg) == [type |-> type, msg |-> msg]

(* a value bound to a name: F(v) is the expression F with v for its name *)
Let(v, F(_)) == F(v)

Get(d, key) == IF key \in DOMAIN d THEN d[key] ELSE None

Range(s) == {s[i] : i \in DOMAIN s}

RECURSIVE Unique(_)
Unique(s) ==
    IF s = <<>> THEN <<>>
    ELSE LET front == Unique(SubSeq(s, 1, Len(s) - 1))
             x == s[Len(s)]
         IN IF x \in Range(front) THEN front ELSE Append(front, x)

RECURSIVE Concat(_)
Concat(ss) == IF ss = <<>> THEN <<>> ELSE Head(ss) \o Concat(Tail(ss))

-----------------------------------------------------------------------------
(* esmvaltool.diag_scripts.mlr: module constants *)

IO_NECESSARY_KEYS == <<"long_name", "units", "dataset", "filename", "project">>

NECESSARY_KEYS == IO_NECESSARY_KEYS \o <<"tag", "var_type">>

VAR_TYPES == <<"feature", "label", "prediction_input", "prediction_input_error",
               "prediction_output", "prediction_output_error",
               "prediction_output_misc", "prediction_reference",
               "prediction_residual">>

(* esmvaltool.diag_scripts.shared *)

select_metadata(metadata, attributes) ==
    SelectSeq(metadata, LAMBDA attribs :
        \A a \in DOMAIN attributes :
            a \in DOMAIN attribs /\ attribs[a] = attributes[a])

group_keys(metadata, attribute) ==
    Unique([i \in DOMAIN metadata |-> Get(metadata[i], attribute)])

group_metadata(metadata, attribute) ==
    [key \in Range(group_keys(metadata, attribute)) |->
        SelectSeq(metadata, LAMBDA attribs : Get(attribs, attribute) = key)]

-----------------------------------------------------------------------------
(* datasets_have_mlr_attributes(datasets, log_level, mode).  The result is *)
(* [err, output, log]: the loop runs over the datasets in order and stops  *)
(* at the first dataset whose 'filename' lookup raises KeyError.           *)

MissingKeys(dataset) == {k \in Range(NECESSARY_KEYS) : k \notin DOMAIN dataset}

InvalidVarType(dataset) == Get(dataset, "var_type") \notin Range(VAR_TYPES)

DatasetFails(dataset, mode) ==
    \/ mode # "only_var_type" /\ MissingKeys(dataset) # {}
    \/ mode # "only_missing" /\ InvalidVarType(dataset)

RECURSIVE datasets_have_mlr_attributes(_, _)
datasets_have_mlr_attributes(datasets, mode) ==
    IF datasets = <<>> THEN [err |-> NoErr, output |-> TRUE]
    ELSE LET dataset == Head(datasets)
         IN IF "filename" \notin DOMAIN dataset
            THEN [err |-> Raise("KeyError", "filename"), output |-> None]
            ELSE LET rest == datasets_have_mlr_attributes(Tail(datasets), mode)
                 IN IF rest.err # NoErr THEN rest
                    ELSE [err |-> NoErr,
                          output |-> rest.output /\ ~DatasetFails(dataset, mode)]


create_alias(dataset, attributes) ==
    (* the alias is kept as the list of joined parts *)
    LET alias == [i \in DOMAIN SelectSeq(attributes, LAMBDA a : a \in DOMAIN dataset) |->
                     dataset[SelectSeq(attributes, LAMBDA a : a \in DOMAIN dataset)[i]]]
    IN IF alias = <<>> THEN <<dataset["dataset"]>> ELSE alias

-----------------------------------------------------------------------------
(* MLRModel: configuration *)

Tags == <<"A", "B">>         \* tag values in sort order

NoGroup == <<>>              \* dataset['group_attribute'] = None

Models == <<"m1", "m2", "m3", "m4", "m5", "m6", "m7", "m8">>   \* in sort order

TestSizeDefault == 25        \* test_size in percent; 0 is a falsy test_size

setdefault(d, key, val) == IF key \in DOMAIN d THEN d ELSE (key :> val) @@ d

GetOr(d, key, default) == IF key \in DOMAIN d THEN d[key] ELSE default

init_cfg(cfg) ==
    LET c1 == setdefault(cfg, "cache_intermediate_results", TRUE)
        c2 == setdefault(c1, "imputation_strategy", "remove")
        c3 == setdefault(c2, "n_jobs", 1)
        c4 == setdefault(c3, "parameters", <<>>)
        c5 == setdefault(c4, "pca", FALSE)
        c6 == setdefault(c5, "standardize_data", TRUE)
    IN setdefault(c6, "test_size", TestSizeDefault)

-----------------------------------------------------------------------------
(* MLRModel._load_input_datasets and its helpers *)

SetGroup(datasets, f(_)) ==
    [i \in DOMAIN datasets |->
        ("group_attribute" :> f(datasets[i])) @@ datasets[i]]

_group_by_attributes(cfg, datasets) ==
    LET attributes == GetOr(cfg, "group_datasets_by_attributes", <<>>)
        scalar == GetOr(cfg, "accept_only_scalar_data", FALSE)
    IN IF attributes = <<>>
       THEN IF scalar
            THEN SetGroup(datasets, LAMBDA d : create_alias(d, <<"dataset">>))
            ELSE SetGroup(datasets, LAMBDA d : NoGroup)
       ELSE SetGroup(datasets, LAMBDA d : create_alias(d, attributes))

_group_prediction_datasets(datasets) ==
    LET ds == SetGroup(datasets, LAMBDA d : NoGroup)
    IN [keys |-> group_keys(ds, "prediction_name"),
        groups |-> group_metadata(ds, "prediction_name")]

DatasetTypes == <<"feature", "label", "prediction_input",
                  "prediction_input_error", "prediction_reference">>

RECURSIVE CheckTypes(_, _)
CheckTypes(input_datasets, types) ==
    IF types = <<>> THEN NoErr
    ELSE LET datasets == select_metadata(input_datasets, [var_type |-> Head(types)])
             chk == datasets_have_mlr_attributes(datasets, None)
         IN IF chk.err # NoErr THEN chk.err
            ELSE IF ~chk.output
            THEN Raise("ValueError", "dataset does not have necessary MLR attributes")
            ELSE CheckTypes(input_datasets, Tail(types))

_load_input_datasets(cfg, input_datasets) ==
    LET first == datasets_have_mlr_attributes(input_datasets, "only_var_type")
        sel(t) == select_metadata(input_datasets, [var_type |-> t])
        chk == CheckTypes(input_datasets, DatasetTypes)
        empty == [feature |-> <<>>, label |-> <<>>,
                  prediction_input |-> [keys |-> <<>>, groups |-> <<>>],
                  prediction_input_error |-> [keys |-> <<>>, groups |-> <<>>],
                  prediction_reference |-> [keys |-> <<>>, groups |-> <<>>]]
    IN IF first.err # NoErr THEN [err |-> first.err, datasets |-> empty]
       ELSE IF chk # NoErr THEN [err |-> chk, datasets |-> empty]
       ELSE IF sel("feature") = <<>>
       THEN [err |-> Raise("ValueError", "No 'feature' data found"), datasets |-> empty]
       ELSE IF sel("label") = <<>>
       THEN [err |-> Raise("ValueError", "No 'label' data found"), datasets |-> empty]
       ELSE IF sel("prediction_input") = <<>>
       THEN [err |-> Raise("ValueError", "No 'prediction_input' data found"),
             datasets |-> empty]
       ELSE [err |-> NoErr,
             datasets |->
                [feature |-> _group_by_attributes(cfg, sel("feature")),
                 label |-> _group_by_attributes(cfg, sel("label")),
                 prediction_input |->
                    _group_prediction_datasets(sel("prediction_input")),
                 prediction_input_error |->
                    _group_prediction_datasets(sel("prediction_input_error")),
                 prediction_reference |->
                    _group_prediction_datasets(sel("prediction_reference"))]]

-----------------------------------------------------------------------------
(* MLRModel._load_classes *)

(* group_metadata(..., sort=True): the keys in sort order *)
SortGroups(keys) ==
    SelectSeq(<<NoGroup>> \o [i \in DOMAIN Models |-> <<Models[i]>>],
              LAMBDA g : g \in Range(keys))

(* variant: the group attributes are taken from the feature datasets *)
_get_group_attributes_of_features(datasets) ==
    SortGroups(group_keys(datasets.feature, "group_attribute"))

_get_group_attributes(datasets) ==
    SortGroups(group_keys(datasets.label, "group_attribute"))

SortTags(tags) == SelectSeq(Tags, LAMBDA t : t \in tags)

_get_features(datasets) ==
    LET pred_name == datasets.prediction_input.keys[1]
        ds == datasets.prediction_input.groups[pred_name]
        grouped == group_metadata(ds, "tag")
    IN [index |-> SortTags(DOMAIN grouped),
        units |-> [tag \in DOMAIN grouped |-> grouped[tag][1]["units"]]]

_get_label(datasets) ==
    LET labels == group_keys(datasets.label, "tag")
    IN IF Len(labels) > 1
       THEN [err |-> Raise("ValueError", "Expected unique label tag"),
             label |-> None, units |-> None]
       ELSE [err |-> NoErr, label |-> labels[1],
             units |-> datasets.label[1]["units"]]

_load_classes(datasets) ==
    LET lab == _get_label(datasets)
        features == _get_features(datasets)
    IN [err |-> lab.err,
        classes |-> [group_attributes |-> _get_group_attributes(datasets),
                     features |-> features.index,
                     features_units |-> features.units,
                     label |-> lab.label,
                     label_units |-> lab.units]]

-----------------------------------------------------------------------------
(* MLRModel: extraction of x and y data.  A data frame is a sequence of    *)
(* rows; an x row maps every feature to a value, a y row is a value.       *)

_load_cube(files, dataset) == files[dataset["filename"]]

NotFound == [found |-> FALSE]       \* _check_dataset returned None

(* variant: of several matching datasets the first one is taken *)
_check_dataset_first_match(cfg, classes, datasets, var_type, tag) ==
    LET ds == select_metadata(datasets, [tag |-> tag, var_type |-> var_type])
        units == IF var_type = "label" THEN classes.label_units
                 ELSE classes.features_units[tag]
    IN IF ds = <<>>
       THEN IF var_type \in {"prediction_input_error", "prediction_reference"}
            THEN [err |-> NoErr, dataset |-> NotFound]
            ELSE IF var_type = "label"
            THEN [err |-> Raise("ValueError", "Label not found"), dataset |-> NotFound]
            ELSE IF ~GetOr(cfg, "allow_missing_features", FALSE)
            THEN [err |-> Raise("ValueError", "not found, use 'allow_missing_features'"),
                  dataset |-> NotFound]
            ELSE [err |-> NoErr, dataset |-> NotFound]
       ELSE IF units # ds[1]["units"]
       THEN [err |-> Raise("ValueError", "Expected units"), dataset |-> NotFound]
       ELSE [err |-> NoErr, dataset |-> ds[1]]

_check_dataset(cfg, classes, datasets, var_type, tag) ==
    LET ds == select_metadata(datasets, [tag |-> tag, var_type |-> var_type])
        units == IF var_type = "label" THEN classes.label_units
                 ELSE classes.features_units[tag]
    IN IF ds = <<>>
       THEN IF var_type \in {"prediction_input_error", "prediction_reference"}
            THEN [err |-> NoErr, dataset |-> NotFound]
            ELSE IF var_type = "label"
            THEN [err |-> Raise("ValueError", "Label not found"), dataset |-> NotFound]
            ELSE IF ~GetOr(cfg, "allow_missing_features", FALSE)
            THEN [err |-> Raise("ValueError", "not found, use 'allow_missing_features'"),
                  dataset |-> NotFound]
            ELSE [err |-> NoErr, dataset |-> NotFound]
       ELSE IF Len(ds) > 1
       THEN [err |-> Raise("ValueError", "not unique"), dataset |-> NotFound]
       ELSE IF units # ds[1]["units"]
       THEN [err |-> Raise("ValueError", "Expected units"), dataset |-> NotFound]
       ELSE [err |-> NoErr, dataset |-> ds[1]]

(* ref_cube = <<>> with has_ref = FALSE stands for ref_cube=None *)
_check_cube_dimensions(cfg, cube, has_ref, ref_cube) ==
    IF GetOr(cfg, "accept_only_scalar_data", FALSE)
    THEN IF Len(cube) # 1
         THEN Raise("ValueError", "Expected only cubes with shapes [(), (1,)]")
         ELSE NoErr
    ELSE IF ~has_ref THEN NoErr
    ELSE IF Len(cube) # Len(ref_cube)
    THEN Raise("ValueError", "Expected cubes with shapes")
    ELSE NoErr

RECURSIVE RefCubeLoop(_, _, _, _, _, _)
RefCubeLoop(cfg, classes, files, datasets, var_type, tags) ==
    IF tags = <<>>
    THEN [err |-> Raise("ValueError", "No data without the option 'broadcast_from' found"),
          cube |-> <<>>]
    ELSE LET chk == _check_dataset(cfg, classes, datasets, var_type, Head(tags))
         IN IF chk.err # NoErr THEN [err |-> chk.err, cube |-> <<>>]
            ELSE IF chk.dataset # NotFound
            THEN [err |-> NoErr, cube |-> _load_cube(files, chk.dataset)]
            ELSE RefCubeLoop(cfg, classes, files, datasets, var_type, Tail(tags))

_get_reference_cube(cfg, classes, files, datasets, var_type) ==
    RefCubeLoop(cfg, classes, files, datasets, var_type, classes.features)

(* the columns of one group: [err, cols], cols[tag] a cube or <<>> for a   *)
(* scalar np.nan (0.0 for prediction_input_error)                          *)
RECURSIVE ColumnLoop(_, _, _, _, _, _, _)
ColumnLoop(cfg, classes, files, datasets, var_type, ref_cube, tags) ==
    IF tags = <<>> THEN [err |-> NoErr, cols |-> <<>>]
    ELSE LET tag == Head(tags)
             chk == _check_dataset(cfg, classes, datasets, var_type, tag)
             cube == _load_cube(files, chk.dataset)
             dim == _check_cube_dimensions(cfg, cube, TRUE, ref_cube)
             rest == ColumnLoop(cfg, classes, files, datasets, var_type,
                                ref_cube, Tail(tags))
         IN IF chk.err # NoErr THEN [err |-> chk.err, cols |-> <<>>]
            ELSE IF chk.dataset = NotFound
            THEN IF rest.err # NoErr THEN rest
                 ELSE [err |-> NoErr, cols |-> (tag :> <<>>) @@ rest.cols]
            ELSE IF dim # NoErr THEN [err |-> dim, cols |-> <<>>]
            ELSE IF rest.err # NoErr THEN rest
            ELSE [err |-> NoErr, cols |-> (tag :> cube) @@ rest.cols]

(* variant: a missing feature is filled with 0.0 *)
ScalarFill_zero(var_type) == 0

ScalarFill(var_type) == IF var_type = "prediction_input_error" THEN 0 ELSE NaN

_get_x_data_for_group(cfg, classes, files, datasets, var_type) ==
    Let(_get_reference_cube(cfg, classes, files, datasets, var_type), LAMBDA ref :
    LET loop == ColumnLoop(cfg, classes, files, datasets, var_type, ref.cube,
                           classes.features)
    IN IF ref.err # NoErr THEN [err |-> ref.err, group_data |-> <<>>, ref_cube |-> <<>>]
       ELSE IF loop.err # NoErr
       THEN [err |-> loop.err, group_data |-> <<>>, ref_cube |-> <<>>]
       ELSE [err |-> NoErr,
             group_data |->
                [i \in 1..Len(ref.cube) |->
                    [tag \in Range(classes.features) |->
                        IF loop.cols[tag] = <<>> THEN ScalarFill(var_type)
                        ELSE loop.cols[tag][i]]],
             ref_cube |-> ref.cube])

RECURSIVE XGroupLoop(_, _, _, _, _, _)
XGroupLoop(cfg, classes, files, datasets, var_type, groups) ==
    IF groups = <<>> THEN [err |-> NoErr, x_data |-> <<>>, x_cube |-> <<>>]
    ELSE LET group_attr == Head(groups)
             group_datasets == select_metadata(datasets, [group_attribute |-> group_attr])
         IN  Let(_get_x_data_for_group(cfg, classes, files, group_datasets, var_type), LAMBDA grp :
         LET rest == XGroupLoop(cfg, classes, files, datasets, var_type, Tail(groups))
         IN IF group_datasets = <<>>
            THEN [err |-> Raise("ValueError", "No data for group found"),
                  x_data |-> <<>>, x_cube |-> <<>>]
            ELSE IF grp.err # NoErr
            THEN [err |-> grp.err, x_data |-> <<>>, x_cube |-> <<>>]
            ELSE IF rest.err # NoErr THEN rest
            ELSE [err |-> NoErr, x_data |-> grp.group_data \o rest.x_data,
                  x_cube |-> IF Tail(groups) = <<>> THEN grp.ref_cube ELSE rest.x_cube])

_extract_x_data(cfg, classes, files, datasets, var_type) ==
    IF var_type \notin {"feature", "prediction_input", "prediction_input_error"}
    THEN [err |-> Raise("ValueError", "Excepted one of allowed types"),
          x_data |-> <<>>, x_cube |-> <<>>]
    ELSE XGroupLoop(cfg, classes, files,
                    select_metadata(datasets, [var_type |-> var_type]), var_type,
                    IF var_type = "feature" THEN classes.group_attributes
                    ELSE <<NoGroup>>)

(* [err, none, y_data]: none = TRUE stands for the return value None *)
RECURSIVE YGroupLoop(_, _, _, _, _, _)
YGroupLoop(cfg, classes, files, datasets, var_type, groups) ==
    IF groups = <<>> THEN [err |-> NoErr, none |-> FALSE, y_data |-> <<>>]
    ELSE LET group_datasets == select_metadata(datasets, [group_attribute |-> Head(groups)])
             chk == _check_dataset(cfg, classes, group_datasets, var_type, classes.label)
             cube == _load_cube(files, chk.dataset)
             dim == _check_cube_dimensions(cfg, cube, FALSE, <<>>)
             rest == YGroupLoop(cfg, classes, files, datasets, var_type, Tail(groups))
         IN IF chk.err # NoErr THEN [err |-> chk.err, none |-> FALSE, y_data |-> <<>>]
            ELSE IF chk.dataset = NotFound
            THEN [err |-> NoErr, none |-> TRUE, y_data |-> <<>>]
            ELSE IF dim # NoErr THEN [err |-> dim, none |-> FALSE, y_data |-> <<>>]
            ELSE IF rest.err # NoErr \/ rest.none THEN rest
            ELSE [err |-> NoErr, none |-> FALSE, y_data |-> cube \o rest.y_data]

_extract_y_data(cfg, classes, files, datasets, var_type) ==
    IF var_type \notin {"label", "prediction_reference"}
    THEN [err |-> Raise("ValueError", "Excepted one of allowed types"),
          none |-> FALSE, y_data |-> <<>>]
    ELSE YGroupLoop(cfg, classes, files,
                    select_metadata(datasets, [var_type |-> var_type]), var_type,
                    IF var_type = "label" THEN classes.group_attributes
                    ELSE <<NoGroup>>)

-----------------------------------------------------------------------------
(* MLRModel: removal of missing values and train/test split *)

(* data_frame[~mask].reset_index(drop=True) *)
RECURSIVE Drop(_, _)
Drop(frame, mask) ==
    IF frame = <<>> THEN <<>>
    ELSE IF Head(mask) THEN Drop(Tail(frame), Tail(mask))
    ELSE <<Head(frame)>> \o Drop(Tail(frame), Tail(mask))

Count(mask) == Cardinality({i \in DOMAIN mask : mask[i]})

(* variant: a row is dropped only when all of its features are missing *)
RowIsNull_all(row) == \A tag \in DOMAIN row : row[tag] = NaN

RowIsNull(row) == \E tag \in DOMAIN row : row[tag] = NaN

_remove_missing_labels(x_data, y_data) ==
    LET mask == [i \in DOMAIN y_data |-> y_data[i] = NaN]
    IN [x |-> Drop(x_data, mask), y |-> Drop(y_data, mask)]

_remove_missing_features(cfg, classes, x_data, y_data) ==
    LET mask == [i \in DOMAIN x_data |-> RowIsNull(x_data[i])]
        keep == [err |-> NoErr, x |-> x_data, y |-> y_data,
                 group_attributes |-> classes.group_attributes]
    IN IF cfg["imputation_strategy"] # "remove" THEN keep
       ELSE IF Count(mask) # 0 /\ GetOr(cfg, "accept_only_scalar_data", FALSE)
       THEN IF Len(mask) # Len(classes.group_attributes)
            THEN [keep EXCEPT !.err = Raise("IndexError", "boolean index did not match")]
            ELSE [err |-> NoErr, x |-> Drop(x_data, mask), y |-> Drop(y_data, mask),
                  group_attributes |-> Drop(classes.group_attributes, mask)]
       ELSE [keep EXCEPT !.x = Drop(x_data, mask), !.y = Drop(y_data, mask)]

_extract_features_and_labels(cfg, classes, files, datasets) ==
    Let(_extract_x_data(cfg, classes, files, datasets.feature, "feature"), LAMBDA xd :
    LET yd == _extract_y_data(cfg, classes, files, datasets.label, "label")
        lab == _remove_missing_labels(xd.x_data, yd.y_data)
        fail(e) == [err |-> e, x |-> <<>>, y |-> <<>>,
                    group_attributes |-> classes.group_attributes]
    IN IF xd.err # NoErr THEN fail(xd.err)
       ELSE IF yd.err # NoErr THEN fail(yd.err)
       ELSE IF Len(xd.x_data) # Len(yd.y_data)
       THEN fail(Raise("ValueError", "Sizes of features and labels do not match"))
       ELSE _remove_missing_features(cfg, classes, lab.x, lab.y))

Frame(x, y) == [x |-> x, y |-> y]

Perms(n) == {p \in [1..n -> 1..n] : \A i, j \in 1..n : p[i] = p[j] => i = j}

(* sklearn.model_selection.train_test_split with a float test_size (given  *)
(* in percent): n_test = ceil(test_size * n), the test rows are the first  *)
(* n_test rows of a random permutation, the training rows the others       *)
_train_test_split(x_data, y_data, test_size, perm) ==
    LET n == Len(x_data)
        n_test == (test_size * n + 99) \div 100
        n_train == n - n_test
        pick(frame, from, to) == [i \in 1..(to - from + 1) |-> frame[perm[from + i - 1]]]
    IN IF n_train = 0
       THEN [err |-> Raise("ValueError", "the resulting train set will be empty"),
             train |-> Frame(<<>>, <<>>), test |-> Frame(<<>>, <<>>)]
       ELSE [err |-> NoErr,
             train |-> Frame(pick(x_data, n_test + 1, n), pick(y_data, n_test + 1, n)),
             test |-> Frame(pick(x_data, 1, n_test), pick(y_data, 1, n_test))]

(* [err, data, group_attributes]; data is self._data without 'pred' *)
_load_data(cfg, classes, files, datasets, perm) ==
    Let(_extract_features_and_labels(cfg, classes, files, datasets), LAMBDA xy :
    LET all == Frame(xy.x, xy.y)
        split == _train_test_split(xy.x, xy.y, cfg["test_size"], perm)
        out(e, d) == [err |-> e, data |-> d, group_attributes |-> xy.group_attributes]
    IN IF xy.err # NoErr THEN out(xy.err, <<>>)
       ELSE IF Len(xy.y) < 2
       THEN out(Raise("ValueError", "Need at least 2 data points for MLR training"),
                [all |-> all])
       ELSE IF cfg["test_size"] # 0
       THEN IF split.err # NoErr THEN out(split.err, [all |-> all])
            ELSE IF Len(split.train.y) < 2 \/ Len(split.test.y) < 2
            THEN out(Raise("ValueError", "Need at least 2 datasets for train/test data"),
                     [all |-> all, train |-> split.train, test |-> split.test])
            ELSE out(NoErr, [all |-> all, train |-> split.train, test |-> split.test])
       ELSE out(NoErr, [all |-> all, train |-> all]))

(* number of rows that reach the split; the permutation is drawn over them *)
SplitSize(cfg, classes, files, datasets) ==
    Len(_extract_features_and_labels(cfg, classes, files, datasets).y)

-----------------------------------------------------------------------------
(* MLRModel subclasses and the pipeline *)

Classes == {"MLRModel", "SklearnGBRModel", "SklearnGPRModel", "XGBoostGBRModel"}

(* _CLF_TYPE of every class; None for the base class *)
CLF_TYPE(cls) ==
    CASE cls = "SklearnGBRModel" -> "GradientBoostingRegressor"
      [] cls = "SklearnGPRModel" -> "GaussianProcessRegressor"
      [] cls = "XGBoostGBRModel" -> "XGBRegressor"
      [] OTHER -> None

_clf_is_valid(cls) == CLF_TYPE(cls) # None

NJobsNone == 0               \* n_jobs = None

NoClf == [steps |-> <<>>, memory |-> None, params |-> <<>>]   \* self._clf = None

(* get_params(deep=True) of the pipeline, restricted to one nested         *)
(* parameter per step                                                      *)
StepParams(step) ==
    CASE step = "pandas_to_numpy_converter" -> {"pandas_to_numpy_converter__remainder"}
      [] step = "imputer" -> {"imputer__strategy"}
      [] step = "x_scaler" -> {"x_scaler__remainder"}
      [] step = "pca" -> {"pca__remainder"}
      [] step = "final" -> {"final__regressor__random_state"}
      [] OTHER -> {}

Optional(cond, step) == IF cond THEN <<step>> ELSE <<>>

(* variant: the PCA step is appended before the scaler *)
_create_pipeline_pca_first(cls, cfg) ==
    IF ~_clf_is_valid(cls) THEN NoClf
    ELSE LET steps == <<"pandas_to_numpy_converter">>
                      \o Optional(cfg["imputation_strategy"] # "remove", "imputer")
                      \o Optional(cfg["pca"], "pca")
                      \o Optional(cfg["standardize_data"], "x_scaler")
                      \o <<"final">>
             memory == IF cfg["cache_intermediate_results"]
                       THEN IF cfg["n_jobs"] = NJobsNone \/ cfg["n_jobs"] = 1
                            THEN "mlr_work_dir" ELSE None
                       ELSE None
         IN [steps |-> steps, memory |-> memory,
             params |-> [k \in UNION {StepParams(st) : st \in Range(steps)} |-> 0]]

_create_pipeline(cls, cfg) ==
    IF ~_clf_is_valid(cls) THEN NoClf
    ELSE LET steps == <<"pandas_to_numpy_converter">>
                      \o Optional(cfg["imputation_strategy"] # "remove", "imputer")
                      \o Optional(cfg["standardize_data"], "x_scaler")
                      \o Optional(cfg["pca"], "pca")
                      \o <<"final">>
             memory == IF cfg["cache_intermediate_results"]
                       THEN IF cfg["n_jobs"] = NJobsNone \/ cfg["n_jobs"] = 1
                            THEN "mlr_work_dir" ELSE None
                       ELSE None
         IN [steps |-> steps, memory |-> memory,
             params |-> [k \in UNION {StepParams(st) : st \in Range(steps)} |-> 0]]

_get_clf_parameters(clf) == clf.params

(* variant: one invalid name keeps every parameter from being applied *)
update_parameters_strict(cls, clf, parameters, params) ==
    IF ~_clf_is_valid(cls)
    THEN [clf |-> clf, parameters |-> parameters,
          warnings |-> {"No MLR model specified"}]
    ELSE LET allowed_params == _get_clf_parameters(clf)
             new_params == {key \in DOMAIN params : key \in DOMAIN allowed_params}
             set_params == [clf EXCEPT !.params =
                               [k \in DOMAIN clf.params |->
                                   IF k \in new_params /\ new_params = DOMAIN params
                                   THEN params[k] ELSE clf.params[k]]]
         IN [clf |-> set_params,
             parameters |-> _get_clf_parameters(set_params),
             warnings |-> DOMAIN params \ new_params]

(* update_parameters: [clf, parameters, warnings] *)
update_parameters(cls, clf, parameters, params) ==
    IF ~_clf_is_valid(cls)
    THEN [clf |-> clf, parameters |-> parameters,
          warnings |-> {"No MLR model specified"}]
    ELSE LET allowed_params == _get_clf_parameters(clf)
             new_params == {key \in DOMAIN params : key \in DOMAIN allowed_params}
             set_params == [clf EXCEPT !.params =
                               [k \in DOMAIN clf.params |->
                                   IF k \in new_params THEN params[k] ELSE clf.params[k]]]
         IN [clf |-> set_params,
             parameters |-> _get_clf_parameters(set_params),
             warnings |-> DOMAIN params \ new_params]

-----------------------------------------------------------------------------
(* MLRModel.__init__(cfg, input_data): [err, self] *)

NoSelf == [cls |-> None, cfg |-> <<>>, clf |-> NoClf, data |-> <<>>, pred |-> <<>>,
           datasets |-> <<>>, classes |-> <<>>, parameters |-> <<>>]

SelfInit(cls, cfg_in) == [NoSelf EXCEPT !.cls = cls, !.cfg = init_cfg(cfg_in)]

(* the state of __init__ up to and including _load_classes *)
Loaded(cls, cfg_in, input_data) ==
    LET s0 == SelfInit(cls, cfg_in)
    IN  Let(_load_input_datasets(s0.cfg, input_data), LAMBDA ld :
    LET cl == _load_classes(ld.datasets)
    IN IF ld.err # NoErr THEN [err |-> ld.err, self |-> s0]
       ELSE [err |-> cl.err,
             self |-> [s0 EXCEPT !.datasets = ld.datasets, !.classes = cl.classes]])

__init__(cls, cfg_in, input_data, files, perm) ==
    Let(Loaded(cls, cfg_in, input_data), LAMBDA l :
    LET s1 == l.self
    IN  Let(_load_data(s1.cfg, s1.classes, files, s1.datasets, perm), LAMBDA dat :
    LET s2 == [s1 EXCEPT !.data = dat.data,
                         !.classes.group_attributes = dat.group_attributes]
        clf == _create_pipeline(cls, s2.cfg)
    IN  Let(update_parameters(cls, clf, <<>>, s2.cfg["parameters"]), LAMBDA upd :
       IF l.err # NoErr THEN [err |-> l.err, self |-> s1, warnings |-> {}]
       ELSE IF dat.err # NoErr THEN [err |-> dat.err, self |-> s2, warnings |-> {}]
       ELSE [err |-> NoErr,
             self |-> [s2 EXCEPT !.clf = upd.clf, !.parameters = upd.parameters],
             warnings |-> upd.warnings])))

(* the permutations train_test_split may draw for this input *)
SplitPerms(cls, cfg_in, input_data, files) ==
    Let(Loaded(cls, cfg_in, input_data), LAMBDA l :
       IF l.err # NoErr THEN {<<>>}
       ELSE IF l.self.cfg["test_size"] = 0 THEN {<<>>}
       ELSE Perms(SplitSize(l.self.cfg, l.self.classes, files, l.self.datasets)))

-----------------------------------------------------------------------------
(* State shared by all specifications *)

Modules == {"gbr_sklearn", "gpr_sklearn", "gbr_xgboost"}

DirectClass == "SklearnGPRModel"    \* class whose constructor Construct calls

Idle ==
    /\ MODELS = <<>>
    /\ MODEL_TYPE = [c \in Classes |-> None]
    /\ phase = "start"
    /\ self = NoSelf
    /\ fitted = FALSE
    /\ saved = {}
    /\ err = NoErr
    /\ warnings = {}
    /\ last = [op |-> "none"]
    /\ result = None
    /\ everFitted = FALSE
    /\ heap = <<>>

(* cls(cfg, input_data=datasets) *)
Construct ==
    /\ phase = "start"
    /\ \E perm \in SplitPerms(DirectClass, input.cfg, input.datasets, input.files) :
          \E r \in {__init__(DirectClass, input.cfg, input.datasets, input.files, perm)} :
             /\ phase' = IF r.err = NoErr THEN "constructed" ELSE "failed"
             /\ self' = IF r.err = NoErr THEN r.self ELSE NoSelf
             /\ err' = r.err
             /\ warnings' = r.warnings
    /\ last' = [op |-> "__init__"]
    /\ UNCHANGED <<heap, MODELS, MODEL_TYPE, imported, input, fitted, saved, result,
                   everFitted>>

(* variant: data that does not exist is replaced by all data *)
get_data_frame_lenient(data, data_type) ==
    IF data_type \notin {"all", "train", "test"}
    THEN [err |-> Raise("TypeError", "not an allowed type"), frame |-> Frame(<<>>, <<>>)]
    ELSE IF data_type \notin DOMAIN data
    THEN [err |-> NoErr, frame |-> data["all"]]
    ELSE [err |-> NoErr, frame |-> data[data_type]]

(* get_data_frame(data_type) with impute_nans=False *)
get_data_frame(data, data_type) ==
    IF data_type \notin {"all", "train", "test"}
    THEN [err |-> Raise("TypeError", "not an allowed type"), frame |-> Frame(<<>>, <<>>)]
    ELSE IF data_type \notin DOMAIN data
    THEN [err |-> Raise("TypeError", "No data available"), frame |-> Frame(<<>>, <<>>)]
    ELSE [err |-> NoErr, frame |-> data[data_type]]

GetDataFrame ==
    /\ phase = "constructed"
    /\ \E data_type \in {"all", "train", "test", "pred"} :
          \E r \in {get_data_frame(self.data, data_type)} :
             /\ err' = r.err
             /\ result' = r.frame
             /\ last' = [op |-> "get_data_frame", data_type |-> data_type]
    /\ warnings' = {}
    /\ UNCHANGED <<heap, MODELS, MODEL_TYPE, imported, input, phase, self, fitted, saved,
                   everFitted>>

-----------------------------------------------------------------------------
(* SpecLoad: the constructor on lists of feature, label and prediction     *)
(* input datasets whose cubes all have the same shape and no missing cell  *)

Dataset(var_type, tag, dataset) ==
    [long_name |-> "name", units |-> "K", project |-> "CMIP5", dataset |-> dataset,
     tag |-> tag, var_type |-> var_type]

(* the file of dataset number i is named i *)
WithFiles(datasets) ==
    [i \in DOMAIN datasets |-> ("filename" :> i) @@ datasets[i]]

Metas ==
    <<Dataset("feature", "A", "m2"), Dataset("feature", "A", "m1"),
      Dataset("feature", "B", "m1"), Dataset("feature", "B", "m2"),
      Dataset("label", "A", "m2"), Dataset("label", "A", "m1"),
      Dataset("label", "B", "m1")>>

RECURSIVE Repeat(_, _)
Repeat(x, n) == IF n = 0 THEN <<>> ELSE <<x>> \o Repeat(x, n - 1)

RECURSIVE Total(_)
Total(counts) == IF counts = <<>> THEN 0 ELSE Head(counts) + Total(Tail(counts))

Training(counts) == Concat([i \in DOMAIN Metas |-> Repeat(Metas[i], counts[i])])

PredictionTags == {<<"A">>, <<"B">>, <<"A", "B">>}

PredictionInput(tags) == [i \in DOMAIN tags |-> Dataset("prediction_input", tags[i], "obs")]

(* every cell of dataset number i holds the value i *)
UniformFiles(n, size) == [f \in 1..n |-> [c \in 1..size |-> f]]

Options(name, values) == {<<>>} \cup {(name :> v) : v \in values}

LoadCfgs ==
    {a @@ b @@ c @@ d @@ [test_size |-> 0] :
        a \in Options("group_datasets_by_attributes", {<<"dataset">>}),
        b \in Options("accept_only_scalar_data", {TRUE}),
        c \in Options("allow_missing_features", {TRUE}),
        d \in Options("imputation_strategy", {"mean"})}

InitLoad ==
    /\ Idle
    /\ imported = [m \in Modules |-> "pending"]
    /\ \E counts \in [DOMAIN Metas -> 0..2], tags \in PredictionTags,
          cfg \in LoadCfgs, size \in {1, MaxCubeSize} :
          /\ Total(counts) <= MaxDatasets
          /\ LET datasets == WithFiles(Training(counts) \o PredictionInput(tags))
             IN input = [cfg |-> cfg, datasets |-> datasets,
                         files |-> UniformFiles(Len(datasets), size)]

NextLoad == Construct \/ GetDataFrame

SpecLoad == InitLoad /\ [][NextLoad]_vars

-----------------------------------------------------------------------------
(* Properties of the constructor, stated on its arguments *)

InDatasets(var_type) ==
    {i \in DOMAIN input.datasets : input.datasets[i]["var_type"] = var_type}

OptionGiven == "group_datasets_by_attributes" \in DOMAIN input.cfg

ScalarGiven == "accept_only_scalar_data" \in DOMAIN input.cfg

AllowMissing == "allow_missing_features" \in DOMAIN input.cfg

(* the group of an input dataset when datasets are grouped by 'dataset' *)
GroupOf(i) == IF OptionGiven \/ ScalarGiven THEN <<input.datasets[i]["dataset"]>>
              ELSE NoGroup

TagOf(i) == input.datasets[i]["tag"]

(* the features of the model: the tags of the first prediction's input *)
FeatureTags ==
    LET first == CHOOSE i \in InDatasets("prediction_input") :
                    \A j \in InDatasets("prediction_input") : i <= j
    IN {TagOf(i) : i \in {j \in InDatasets("prediction_input") :
            Get(input.datasets[j], "prediction_name")
                = Get(input.datasets[first], "prediction_name")}}

LabelGroups == {GroupOf(i) : i \in InDatasets("label")}

FeaturesOf(group, tag) ==
    {i \in InDatasets("feature") : GroupOf(i) = group /\ TagOf(i) = tag}

Duplicate(var_type, sameGroup) ==
    \E i, j \in InDatasets(var_type) :
        /\ i < j
        /\ TagOf(i) = TagOf(j)
        /\ sameGroup => GroupOf(i) = GroupOf(j)

UsedDuplicate ==
    \/ Duplicate("label", FALSE)
    \/ \E i, j \in InDatasets("feature") :
          i < j /\ TagOf(i) = TagOf(j) /\ TagOf(i) \in FeatureTags

Initialised == last.op = "__init__"

C2_WitnessAcrossGroups ==
    /\ Initialised /\ OptionGiven /\ Duplicate("feature", FALSE)
    /\ phase = "constructed"

MissingFeature ==
    \E g \in LabelGroups, t \in FeatureTags :
        /\ \E i \in InDatasets("feature") : GroupOf(i) = g
        /\ FeaturesOf(g, t) = {}

MissingMsgs == {"not found, use 'allow_missing_features'",
                "No data without the option 'broadcast_from' found"}

EveryGroupHasAFeature ==
    \A g \in LabelGroups : \E t \in FeatureTags : FeaturesOf(g, t) # {}

(* the group of a training row: every cell of dataset i holds the value i  *)
RowGroup(y) == GroupOf(y)

NaNFilled ==
    \A r \in DOMAIN self.data["all"].y :
        \A t \in FeatureTags :
            LET g == RowGroup(self.data["all"].y[r])
                x == self.data["all"].x[r][t]
            IN IF FeaturesOf(g, t) = {} THEN x = NaN ELSE x \in FeaturesOf(g, t)

NoFeatureForGroup ==
    \E g \in LabelGroups : \A i \in InDatasets("feature") : GroupOf(i) # g

(* C4: the group attributes are those of the label datasets, and if one    *)
(* of these groups has no feature dataset the constructor raises           *)
(* ValueError; a constructed model has training rows of every group.       *)
C4_LabelGroupWithoutFeaturesRaises ==
    Initialised =>
        /\ NoFeatureForGroup => (phase = "failed" /\ err.type = "ValueError")
        /\ (phase = "constructed" /\ ~ScalarGiven)
              => Range(self.classes.group_attributes) = LabelGroups
        /\ (phase = "constructed" /\ self.cfg["imputation_strategy"] # "remove")
              => {RowGroup(self.data["all"].y[r]) : r \in DOMAIN self.data["all"].y}
                    = LabelGroups

C4_Witness ==
    /\ Initialised /\ NoFeatureForGroup
    /\ phase = "failed" /\ err.msg = "No data for group found"

-----------------------------------------------------------------------------
(* SpecRows: the constructor on training data with missing cells.  The     *)
(* training data has n raw rows; row i holds the value i in its label and  *)
(* in both features A and B unless the cell is missing.  The rows are the  *)
(* cells of one group of cubes, or (with accept_only_scalar_data) n        *)
(* groups of scalar cubes.                                                 *)

Cell(i, mask) == IF i \in mask THEN NaN ELSE i

(* one group: feature A, feature B, label, then the prediction input *)
CubeRows(n, extra, amask, bmask, ymask) ==
    [cfg |-> <<>>,
     datasets |-> WithFiles(<<Dataset("feature", "A", "m1"), Dataset("feature", "B", "m1"),
                              Dataset("label", "Y", "m1"),
                              Dataset("prediction_input", "A", "obs"),
                              Dataset("prediction_input", "B", "obs")>>),
     files |-> <<[i \in 1..n |-> Cell(i, amask)], [i \in 1..n |-> Cell(i, bmask)],
                 [i \in 1..(n + extra) |-> Cell(i, ymask)], <<1>>, <<1>>>>]

(* n groups: feature A, feature B and label of every group *)
ScalarRows(n, amask, bmask, ymask) ==
    [cfg |-> [accept_only_scalar_data |-> TRUE],
     datasets |-> WithFiles(
        Concat([i \in 1..n |-> <<Dataset("feature", "A", Models[i]),
                                 Dataset("feature", "B", Models[i]),
                                 Dataset("label", "Y", Models[i])>>])
        \o <<Dataset("prediction_input", "A", "obs"),
             Dataset("prediction_input", "B", "obs")>>),
     files |-> Concat([i \in 1..n |-> <<<<Cell(i, amask)>>, <<Cell(i, bmask)>>,
                                        <<Cell(i, ymask)>>>>]) \o <<<<1>>, <<1>>>>]

RowCfgs ==
    {a @@ b : a \in Options("imputation_strategy", {"mean"}),
              b \in Options("test_size", {0, 50})}

InitRows ==
    /\ Idle
    /\ imported = [m \in Modules |-> "pending"]
    /\ \E n \in 1..MaxRows, cfg \in RowCfgs,
          ymask \in SUBSET (1..MaxMissing), amask \in SUBSET {2},
          bmask \in SUBSET {1}, layout \in {"cube", "longer label", "scalar"} :
          LET in == CASE layout = "cube" -> CubeRows(n, 0, amask, bmask, ymask)
                      [] layout = "longer label" -> CubeRows(n, 1, amask, bmask, ymask)
                      [] OTHER -> ScalarRows(n, amask, bmask, ymask)
          IN input = [in EXCEPT !.cfg = cfg @@ in.cfg]

SpecRows == InitRows /\ [][NextLoad]_vars

-----------------------------------------------------------------------------
(* Properties of the training rows, stated on the cubes of the input *)

(* the cells of all training cubes of a tag, in the order of the datasets *)
RawCells(var_type, tag) ==
    Concat([i \in DOMAIN input.datasets |->
               IF input.datasets[i]["var_type"] = var_type /\ TagOf(i) = tag
               THEN input.files[i] ELSE <<>>])

(* the raw training rows: the columns of the features and of the label *)
RawFrame == [x |-> [t \in FeatureTags |-> RawCells("feature", t)],
             y |-> RawCells("label", "Y")]

SizesMatch(raw) == \A t \in DOMAIN raw.x : Len(raw.x[t]) = Len(raw.y)

Strategy == GetOr(input.cfg, "imputation_strategy", "remove")

MissingLabel(raw, i) == raw.y[i] = NaN

MissingAFeature(raw, i) == \E t \in DOMAIN raw.x : raw.x[t][i] = NaN

(* the raw rows the training data is to keep *)
Kept(raw) == {i \in DOMAIN raw.y :
                 ~MissingLabel(raw, i)
                    /\ (Strategy = "remove" => ~MissingAFeature(raw, i))}

(* the frame holds exactly the raw rows in rows, in their order, each with *)
(* the features and the label of the same raw row                          *)
HoldsRows(raw, frame, rows) ==
    /\ Len(frame.x) = Len(frame.y)
    /\ {frame.y[r] : r \in DOMAIN frame.y} = rows
    /\ \A r \in DOMAIN frame.y :
          /\ \A q \in DOMAIN frame.y : q < r => frame.y[q] < frame.y[r]
          /\ \A t \in DOMAIN raw.x : frame.x[r][t] = raw.x[t][frame.y[r]]

SizeErrors == {"Need at least 2 data points for MLR training",
               "Need at least 2 datasets for train/test data",
               "the resulting train set will be empty"}

(* C5: the training data data['all'] of a constructed model holds exactly  *)
(* the raw rows to keep (with 'remove' the rows without a missing label    *)
(* or feature, otherwise the rows without a missing label), in their       *)
(* order, and row i of x holds the features of the raw row of row i of y.  *)
(* When features and labels have the same number of raw rows the           *)
(* constructor fails only for too few data points, or with IndexError      *)
(* under accept_only_scalar_data and 'remove' when one group misses its    *)
(* label and another group a feature.                                      *)
C5_ConstructedRowsAligned ==
    Initialised =>
        LET raw == RawFrame
        IN SizesMatch(raw) =>
              /\ phase = "constructed" => HoldsRows(raw, self.data["all"], Kept(raw))
              /\ phase = "failed" =>
                    \/ err.type = "ValueError" /\ err.msg \in SizeErrors
                    \/ /\ err.type = "IndexError"
                       /\ ScalarGiven /\ Strategy = "remove"
                       /\ \E i, j \in DOMAIN raw.y :
                             /\ MissingLabel(raw, i)
                             /\ ~MissingLabel(raw, j) /\ MissingAFeature(raw, j)

C5_Witness ==
    /\ Initialised /\ phase = "constructed" /\ Strategy = "remove"
    /\ LET raw == RawFrame
       IN \E i, j \in DOMAIN raw.y :
             MissingLabel(raw, i) /\ ~MissingLabel(raw, j) /\ MissingAFeature(raw, j)

TestSizeGiven == "test_size" \in DOMAIN input.cfg

(* the constructor got as far as the check of the number of data points *)
Extracted(raw) == Initialised /\ SizesMatch(raw) /\ err.type # "IndexError"

Rows(frame) == {frame.y[r] : r \in DOMAIN frame.y}

(* every data frame of a constructed model has at least 2 rows, and        *)
(* get_data_frame raises TypeError for data that does not exist            *)
MinimumSizes ==
    /\ Initialised =>
          LET raw == RawFrame
          IN /\ (Extracted(raw) /\ Cardinality(Kept(raw)) < 2)
                   => (phase = "failed" /\ err.type = "ValueError")
             /\ (phase = "failed" /\ err.msg \in SizeErrors)
                   => err.type = "ValueError"
    /\ phase = "constructed" =>
          \A data_type \in DOMAIN self.data : Len(self.data[data_type].y) >= 2
    /\ (last.op = "get_data_frame" /\ last.data_type = "test") =>
          IF "test" \in DOMAIN self.data
          THEN err = NoErr /\ result = self.data["test"]
          ELSE err.type = "TypeError"

Unsplit ==
    /\ phase = "constructed"
    /\ self.data["train"] = self.data["all"]
    /\ "test" \notin DOMAIN self.data

C6_WitnessNoTest ==
    /\ last.op = "get_data_frame" /\ last.data_type = "test"
    /\ GetOr(input.cfg, "test_size", TestSizeDefault) = 0
    /\ err.type = "TypeError"

-----------------------------------------------------------------------------
(* MLRModel: registry of the subclasses and the factory *)

(* the subclass a module of the package decorates; the module and the      *)
(* model type it registers have the same name                              *)
ModelClass(module) ==
    CASE module = "gbr_sklearn" -> "SklearnGBRModel"
      [] module = "gpr_sklearn" -> "SklearnGPRModel"
      [] module = "gbr_xgboost" -> "XGBoostGBRModel"

ModelTypes == Modules \cup {"unknown"}

(* _MODELS: the items of the dictionary in insertion order *)
register_mlr_model(models, model_type, subclass) ==
    LET item == [model_type |-> model_type, subclass |-> subclass]
    IN IF \E i \in DOMAIN models : models[i].model_type = model_type
       THEN [i \in DOMAIN models |->
                IF models[i].model_type = model_type THEN item ELSE models[i]]
       ELSE Append(models, item)

(* importlib.import_module: the decorator runs at the first import of an   *)
(* importable module; reg is [MODELS, MODEL_TYPE, imported]                *)
import_module(reg, module) ==
    IF reg.imported[module] # "pending" THEN reg
    ELSE [MODELS |-> register_mlr_model(reg.MODELS, module, ModelClass(module)),
          MODEL_TYPE |-> [reg.MODEL_TYPE EXCEPT ![ModelClass(module)] = module],
          imported |-> [reg.imported EXCEPT ![module] = "done"]]

(* model_files: the modules in the order os.walk yields them *)
RECURSIVE _load_mlr_models(_, _)
_load_mlr_models(reg, model_files) ==
    IF model_files = <<>> THEN reg
    ELSE _load_mlr_models(import_module(reg, Head(model_files)), Tail(model_files))

WalkOrders == {o \in [1..Cardinality(Modules) -> Modules] :
                  \A i, j \in DOMAIN o : o[i] = o[j] => i = j}

(* variant: the default model type is the one registered last *)
create_default_last(models, model_type) ==
    IF models = <<>> THEN "MLRModel"
    ELSE LET default_model_type == models[Len(models)].model_type
             chosen == IF \A i \in DOMAIN models : models[i].model_type # model_type
                       THEN default_model_type ELSE model_type
         IN models[CHOOSE i \in DOMAIN models : models[i].model_type = chosen].subclass

(* the class create instantiates, once the models are loaded *)
create(models, model_type) ==
    IF models = <<>> THEN "MLRModel"
    ELSE LET default_model_type == models[1].model_type
             chosen == IF \A i \in DOMAIN models : models[i].model_type # model_type
                       THEN default_model_type ELSE model_type
         IN models[CHOOSE i \in DOMAIN models : models[i].model_type = chosen].subclass

-----------------------------------------------------------------------------
(* MLRModel: fit, grid_search_cv and predict.  The variable fitted tells   *)
(* whether predict of the pipeline runs without NotFittedError.            *)

_is_fitted(clf, is_fitted) == IF clf = NoClf THEN FALSE ELSE is_fitted

(* AdvancedTransformedTargetRegressor.fit assigns regressor_, a fresh clone *)
(* of the regressor, and then calls its fit.  A fit that raises "before"   *)
(* the assignment leaves the pipeline predicting as it did; a fit that     *)
(* raises in the "regressor" leaves the unfitted clone, whose predict      *)
(* returns the prior of a GaussianProcessRegressor and raises              *)
(* NotFittedError for the other regressors.                                *)
FailurePoints == {"before", "regressor"}

FittedAfterError(cls, is_fitted, raised) ==
    IF raised = "before" THEN is_fitted
    ELSE CLF_TYPE(cls) = "GaussianProcessRegressor"

(* fit: [err, self, fitted, done]; ok tells whether the pipeline's fit     *)
(* returns, raised where it raises if it does not; done tells that the     *)
(* pipeline was fitted by this call                                        *)
fit(s, is_fitted, ok, raised) ==
    IF ~_clf_is_valid(s.cls)
    THEN [err |-> NoErr, self |-> s, fitted |-> is_fitted, done |-> FALSE]
    ELSE IF ~ok
    THEN [err |-> Raise("ValueError", "fit failed"), self |-> s,
          fitted |-> FittedAfterError(s.cls, is_fitted, raised), done |-> FALSE]
    ELSE [err |-> NoErr, self |-> [s EXCEPT !.parameters = _get_clf_parameters(s.clf)],
          fitted |-> TRUE, done |-> TRUE]

(* grid_search_cv(param_grid): param_grid is <<>> for None and <<grid>>    *)
(* for a given grid; found names the attribute GridSearchCV offers after   *)
(* its fit, best the parameters it found                                   *)
grid_search_cv(s, is_fitted, param_grid, best, found, ok, raised) ==
    LET parameter_grid == IF param_grid # <<>> THEN param_grid[1]
                          ELSE GetOr(s.cfg, "grid_search_cv_param_grid", <<>>)
        same == [err |-> NoErr, self |-> s, fitted |-> is_fitted, done |-> FALSE,
                 warnings |-> {}]
        upd == update_parameters(s.cls, s.clf, s.parameters, best)
        refit == fit([s EXCEPT !.clf = upd.clf, !.parameters = upd.parameters],
                     is_fitted, ok, raised)
    IN IF ~_clf_is_valid(s.cls) THEN same
       ELSE IF parameter_grid = <<>> THEN same
       ELSE IF \E k \in DOMAIN parameter_grid : k \notin DOMAIN _get_clf_parameters(s.clf)
       THEN [same EXCEPT !.err = Raise("ValueError", "Invalid parameter for estimator")]
       ELSE IF found = "best_estimator_"
       THEN IF ~ok THEN [same EXCEPT !.err = Raise("ValueError", "fit failed")]
            ELSE [err |-> NoErr,
                  self |-> [s EXCEPT !.clf = upd.clf,
                                     !.parameters = _get_clf_parameters(upd.clf)],
                  fitted |-> TRUE, done |-> TRUE, warnings |-> {}]
       ELSE IF found = "best_params_"
       THEN [err |-> refit.err, self |-> refit.self, fitted |-> refit.fitted,
             done |-> refit.done, warnings |-> upd.warnings]
       ELSE [same EXCEPT !.err = Raise("ValueError", "GridSearchCV not successful")]

(* AdvancedTransformedTargetRegressor.predict on n points: [err, out].     *)
(* An array is the sequence of its n entries, named after what they hold.  *)
(* Of the regressors only GaussianProcessRegressor.predict accepts         *)
(* return_std and return_cov.                                              *)
Array(n, what) == [i \in 1..n |-> what]

regressor_predict(cls, n, predict_kwargs) ==
    LET return_var == GetOr(predict_kwargs, "return_var", FALSE)
        return_cov == IF return_var THEN FALSE
                      ELSE GetOr(predict_kwargs, "return_cov", FALSE)
    IN IF ~(return_var \/ return_cov) THEN [err |-> NoErr, out |-> <<Array(n, "mean")>>]
       ELSE IF CLF_TYPE(cls) # "GaussianProcessRegressor"
       THEN [err |-> Raise("TypeError", "predict() got an unexpected keyword argument"),
             out |-> <<>>]
       ELSE IF return_var
       THEN [err |-> NoErr, out |-> <<Array(n, "mean"), Array(n, "variance")>>]
       ELSE [err |-> NoErr, out |-> <<Array(n, "mean"), Array(n, "covariance")>>]

(* the key None is "None", the integer key 1 is "1" *)
_prediction_to_dict(pred_out, kwargs) ==
    LET name(idx) == IF idx = 1 THEN None
                     ELSE IF idx = 2 /\ "return_var" \in DOMAIN kwargs THEN "var"
                     ELSE IF idx = 2 /\ "return_cov" \in DOMAIN kwargs THEN "cov"
                     ELSE "1"
    IN [key \in {name(idx) : idx \in DOMAIN pred_out} |->
           pred_out[CHOOSE idx \in DOMAIN pred_out : name(idx) = key]]

_remove_missing_pred_input(cfg, x_pred) ==
    IF cfg["imputation_strategy"] # "remove" THEN x_pred
    ELSE Drop(x_pred, [i \in DOMAIN x_pred |-> RowIsNull(x_pred[i])])

(* [err, x_pred, has_ref, has_err] *)
_extract_prediction_input(s, files, prediction_name) ==
    Let(_extract_x_data(s.cfg, s.classes, files,
                              s.datasets.prediction_input.groups[prediction_name],
                              "prediction_input"), LAMBDA xd :
    LET has_ref == prediction_name \in DOMAIN s.datasets.prediction_reference.groups
        yd == _extract_y_data(s.cfg, s.classes, files,
                              s.datasets.prediction_reference.groups[prediction_name],
                              "prediction_reference")
        has_err == prediction_name \in DOMAIN s.datasets.prediction_input_error.groups
        ed == _extract_x_data(s.cfg, s.classes, files,
                              s.datasets.prediction_input_error.groups[prediction_name],
                              "prediction_input_error")
        out(e) == [err |-> e, x_pred |-> _remove_missing_pred_input(s.cfg, xd.x_data),
                   has_ref |-> has_ref /\ ~yd.none, has_err |-> has_err]
    IN IF xd.err # NoErr THEN [out(NoErr) EXCEPT !.err = xd.err, !.x_pred = <<>>]
       ELSE IF has_ref /\ yd.err # NoErr THEN out(yd.err)
       ELSE IF has_ref /\ ~yd.none /\ Len(xd.x_data) # Len(yd.y_data)
       THEN out(Raise("ValueError",
                      "Sizes of prediction input and prediction output do not match"))
       ELSE IF has_err /\ ed.err # NoErr THEN out(ed.err)
       ELSE IF has_err /\ Len(xd.x_data) # Len(ed.x_data)
       THEN out(Raise("ValueError",
                      "Sizes of prediction input and prediction input error do not match"))
       ELSE out(NoErr))

(* [err, pred_dict] *)
_get_prediction_dict(s, inp, kwargs) ==
    LET y_preds == regressor_predict(s.cls, Len(inp.x_pred), kwargs)
        pred_dict == _prediction_to_dict(y_preds.out, kwargs)
        n == Len(inp.x_pred)
        errors == IF GetOr(s.cfg, "propagate_input_errors", TRUE) /\ inp.has_err
                  THEN [squared_propagated_input_error |-> Array(n, "error")]
                  ELSE <<>>
        residual == IF inp.has_ref THEN [residual |-> Array(n, "residual")] ELSE <<>>
    IN IF y_preds.err # NoErr THEN [err |-> y_preds.err, pred_dict |-> <<>>]
       ELSE [err |-> NoErr, pred_dict |-> residual @@ errors @@ pred_dict]

(* the cubes _save_prediction_cubes writes *)
_save_prediction_cubes(pred_dict, pred_name) ==
    {<<pred_name, pred_type>> : pred_type \in DOMAIN pred_dict}

NoDict == <<>>               \* no prediction was made

(* the loop of predict over the predictions: [err, pred, saved, pred_dict] *)
RECURSIVE PredictLoop(_, _, _, _, _, _)
PredictLoop(s, files, pred, cubes, predict_kwargs, pred_names) ==
    IF pred_names = <<>>
    THEN [err |-> NoErr, pred |-> pred, saved |-> cubes, pred_dict |-> NoDict]
    ELSE LET pred_name == Head(pred_names)
         IN  Let(_extract_prediction_input(s, files, pred_name), LAMBDA inp :
         LET dict == _get_prediction_dict(s, inp, predict_kwargs)
             new_pred == (pred_name :> Frame(inp.x_pred, dict.pred_dict[None])) @@ pred
             new_cubes == cubes \cup _save_prediction_cubes(dict.pred_dict, pred_name)
             rest == PredictLoop(s, files, new_pred, new_cubes, predict_kwargs,
                                 Tail(pred_names))
             stop(e) == [err |-> e, pred |-> pred, saved |-> cubes, pred_dict |-> NoDict]
         IN IF inp.err # NoErr THEN stop(inp.err)
            ELSE IF dict.err # NoErr THEN stop(dict.err)
            ELSE IF Tail(pred_names) = <<>>
            THEN [rest EXCEPT !.pred_dict = dict.pred_dict]
            ELSE rest)

(* predict: [err, self, saved, pred_dict, warnings]; pred_dict is the      *)
(* dictionary of the last prediction                                       *)
predict(s, is_fitted, files, cubes, kwargs) ==
    LET given == kwargs @@ GetOr(s.cfg, "predict_kwargs", <<>>)
        predict_kwargs == IF {"return_var", "return_cov"} \subseteq DOMAIN given
                          THEN [k \in DOMAIN given \ {"return_cov"} |-> given[k]]
                          ELSE given
    IN  Let(PredictLoop(s, files, s.pred, cubes, predict_kwargs,
                            s.datasets.prediction_input.keys), LAMBDA loop :
       IF ~_is_fitted(s.clf, is_fitted)
       THEN [err |-> NoErr, self |-> s, saved |-> cubes, pred_dict |-> NoDict,
             warnings |-> {"Prediction not possible, MLR model is not fitted yet"}]
       ELSE [err |-> loop.err, self |-> [s EXCEPT !.pred = loop.pred],
             saved |-> loop.saved, pred_dict |-> loop.pred_dict,
             warnings |-> IF {"return_var", "return_cov"} \subseteq DOMAIN given
                          THEN {"Returning only variance"} ELSE {}])

-----------------------------------------------------------------------------
(* Spec: the life of one model created by the factory *)

Registry == [MODELS |-> MODELS, MODEL_TYPE |-> MODEL_TYPE, imported |-> imported]

(* a caller imports a module of the package before it uses the factory *)
Import(module) ==
    /\ phase = "start"
    /\ imported[module] = "pending"
    /\ LET reg == import_module(Registry, module)
       IN /\ MODELS' = reg.MODELS
          /\ MODEL_TYPE' = reg.MODEL_TYPE
          /\ imported' = reg.imported
    /\ last' = [op |-> "import", module |-> module]
    /\ err' = NoErr
    /\ warnings' = {}
    /\ UNCHANGED <<heap, input, phase, self, fitted, saved, result, everFitted>>

(* MLRModel.create(model_type, cfg, input_data=datasets) *)
Create ==
    /\ phase = "start"
    /\ \E model_type \in ModelTypes :
          LET reg == _load_mlr_models(Registry, input.model_files)
              cls == create(reg.MODELS, model_type)
          IN /\ MODELS' = reg.MODELS
             /\ MODEL_TYPE' = reg.MODEL_TYPE
             /\ imported' = reg.imported
             /\ last' = [op |-> "create", model_type |-> model_type, cls |-> cls]
             /\ \E perm \in SplitPerms(cls, input.cfg, input.datasets, input.files) :
                   \E r \in {__init__(cls, input.cfg, input.datasets, input.files, perm)} :
                      /\ phase' = IF r.err = NoErr THEN "constructed" ELSE "failed"
                      /\ self' = IF r.err = NoErr THEN r.self ELSE NoSelf
                      /\ err' = r.err
                      /\ warnings' = r.warnings
    /\ UNCHANGED <<heap, input, fitted, saved, result, everFitted>>

Fit ==
    /\ phase = "constructed"
    /\ \E ok \in BOOLEAN, raised \in FailurePoints :
          \E r \in {fit(self, fitted, ok, raised)} :
             /\ self' = r.self
             /\ fitted' = r.fitted
             /\ err' = r.err
             /\ everFitted' = (everFitted \/ r.done)
    /\ last' = [op |-> "fit"]
    /\ warnings' = {}
    /\ UNCHANGED <<heap, MODELS, MODEL_TYPE, imported, input, phase, saved, result>>

ParamGrids == {<<>>, <<("final__regressor__random_state" :> {1})>>,
               <<("bogus" :> {1})>>}

GridSearchCV ==
    /\ phase = "constructed"
    /\ \E param_grid \in ParamGrids, ok \in BOOLEAN, raised \in FailurePoints,
          found \in {"best_estimator_", "best_params_", "none"} :
          \E best \in IF param_grid = <<>> THEN {<<>>}
                      ELSE {b \in [DOMAIN param_grid[1] -> {1}] :
                               \A k \in DOMAIN b : b[k] \in param_grid[1][k]} :
             \E r \in {grid_search_cv(self, fitted, param_grid, best, found, ok, raised)} :
                /\ self' = r.self
                /\ fitted' = r.fitted
                /\ err' = r.err
                /\ warnings' = r.warnings
                /\ everFitted' = (everFitted \/ r.done)
                /\ last' = [op |-> "grid_search_cv", param_grid |-> param_grid]
    /\ UNCHANGED <<heap, MODELS, MODEL_TYPE, imported, input, phase, saved, result>>

PredictKwargs ==
    {<<>>, ("return_var" :> TRUE), ("return_cov" :> TRUE),
     ("return_var" :> TRUE) @@ ("return_cov" :> TRUE),
     ("return_var" :> FALSE) @@ ("return_cov" :> TRUE)}

Predict ==
    /\ phase = "constructed"
    /\ \E kwargs \in PredictKwargs :
          \E r \in {predict(self, fitted, input.files, saved, kwargs)} :
             /\ self' = r.self
             /\ saved' = r.saved
             /\ err' = r.err
             /\ result' = r.pred_dict
             /\ warnings' = r.warnings
             /\ last' = [op |-> "predict", kwargs |-> kwargs]
    /\ UNCHANGED <<heap, MODELS, MODEL_TYPE, imported, input, phase, fitted, everFitted>>

ParamNames == {"final__regressor__random_state", "imputer__strategy", "bogus"}

UpdateParameters ==
    /\ phase = "constructed"
    /\ \E names \in SUBSET ParamNames : \E params \in [names -> {1}] :
          \E r \in {update_parameters(self.cls, self.clf, self.parameters, params)} :
             /\ self' = [self EXCEPT !.clf = r.clf, !.parameters = r.parameters]
             /\ warnings' = r.warnings
             /\ last' = [op |-> "update_parameters", params |-> params]
    /\ err' = NoErr
    /\ UNCHANGED <<heap, MODELS, MODEL_TYPE, imported, input, phase, fitted, saved, result,
                   everFitted>>

(* two training rows without missing cells, the datasets of the            *)
(* predictions named in pred_names, and the order in which os.walk yields  *)
(* the modules of the package                                              *)
LifeInput(cfg, pred_names, model_files) ==
    LET named(d, name) == IF name = None THEN d ELSE ("prediction_name" :> name) @@ d
        datasets == WithFiles(
            <<Dataset("feature", "A", "m1"), Dataset("feature", "B", "m1"),
              Dataset("label", "Y", "m1")>>
            \o Concat([i \in DOMAIN pred_names |->
                  <<named(Dataset("prediction_input", "A", "obs"), pred_names[i]),
                    named(Dataset("prediction_input", "B", "obs"), pred_names[i])>>]))
    IN [cfg |-> cfg @@ [test_size |-> 0], datasets |-> datasets,
        files |-> [i \in DOMAIN datasets |-> <<1, 2>>], model_files |-> model_files]

LifeInputs ==
    {LifeInput(<<>>, <<None>>, <<"gpr_sklearn", "gbr_sklearn", "gbr_xgboost">>),
     LifeInput(("predict_kwargs" :> ("return_cov" :> TRUE)), <<None>>,
               <<"gpr_sklearn", "gbr_sklearn", "gbr_xgboost">>),
     LifeInput(("imputation_strategy" :> "mean"), <<"p1", "p2">>,
               <<"gbr_xgboost", "gbr_sklearn", "gpr_sklearn">>)}

Init ==
    /\ Idle
    /\ imported \in {[m \in Modules |-> "pending"], [m \in Modules |-> "broken"]}
    /\ input \in LifeInputs

Next ==
    \/ Create
    \/ Fit
    \/ GridSearchCV
    \/ Predict
    \/ UpdateParameters

Spec == Init /\ [][Next]_vars

(* SpecCreate: the factory over every state of the registry.  Modules     *)
(* that cannot be imported are "broken"; the others are imported by the    *)
(* caller or by the factory, in any order.                                 *)
InitCreate ==
    /\ Idle
    /\ imported \in [Modules -> {"pending", "broken"}]
    /\ \E model_files \in WalkOrders : input = LifeInput(<<>>, <<None>>, model_files)

NextCreate ==
    \/ \E module \in Modules : Import(module)
    \/ Create

SpecCreate == InitCreate /\ [][NextCreate]_vars

-----------------------------------------------------------------------------
(* Properties of the factory *)

Registered(model_type) == \E i \in DOMAIN MODELS : MODELS[i].model_type = model_type

(* C7: create returns an instance of the subclass registered under         *)
(* model_type, whose _MODEL_TYPE is model_type; for a model_type that is   *)
(* not registered an instance of the subclass registered first; and an     *)
(* instance of the base class MLRModel when nothing is registered.         *)
C7_CreateReturnsRegisteredOrDefault ==
    last.op = "create" =>
        /\ MODELS = <<>> => last.cls = "MLRModel"
        /\ \A i \in DOMAIN MODELS :
              MODELS[i].model_type = last.model_type =>
                 /\ last.cls = MODELS[i].subclass
                 /\ MODEL_TYPE[last.cls] = last.model_type
        /\ (MODELS # <<>> /\ ~Registered(last.model_type)) =>
              last.cls = MODELS[1].subclass
        /\ phase = "constructed" => self.cls = last.cls

(* an unregistered model type was asked for while several were registered *)
C7_Witness ==
    /\ last.op = "create"
    /\ phase = "constructed"
    /\ ~Registered(last.model_type)
    /\ Len(MODELS) >= 2
    /\ self.cls = MODELS[1].subclass

-----------------------------------------------------------------------------
(* Properties of the life of a model *)

(* C1: predict performs a prediction only on a fitted model: while no fit  *)
(* and no grid_search_cv has succeeded, predict returns without result,    *)
(* data['pred'] has no entry and no prediction cube is saved.              *)
C1_PredictOnlyAfterSuccessfulFit ==
    /\ (self.pred # <<>> \/ saved # {}) => everFitted
    /\ (last.op = "predict" /\ ~everFitted) => (err = NoErr /\ result = NoDict)

(* a prediction was stored although every fit so far has raised *)
C1_Witness ==
    /\ last.op = "predict"
    /\ ~everFitted
    /\ self.pred # <<>>
    /\ saved # {}

(* the keyword arguments of the last call of predict, merged with the      *)
(* recipe's as predict merges them                                         *)
GivenKwargs == last.kwargs @@ GetOr(self.cfg, "predict_kwargs", <<>>)

BothGiven ==
    /\ last.op = "predict"
    /\ {"return_var", "return_cov"} \subseteq DOMAIN GivenKwargs

(* predict went past its check of the model and dropped 'return_cov' *)
Predicted == "Returning only variance" \in warnings

(* C8: when the prediction keyword arguments contain both 'return_var'     *)
(* and 'return_cov', the regressor returns the prediction together with    *)
(* the variance and the prediction dictionary has the key 'var' and no     *)
(* key 'cov'.                                                              *)
C8_BothKeysReturnVariance ==
    (BothGiven /\ Predicted) =>
        /\ err = NoErr
        /\ "var" \in DOMAIN result
        /\ "cov" \notin DOMAIN result

(* a Gaussian process was asked for the covariance and not for the         *)
(* variance, and the dictionary holds the prediction only                  *)
C8_Witness ==
    /\ BothGiven
    /\ Predicted
    /\ CLF_TYPE(self.cls) = "GaussianProcessRegressor"
    /\ ~GivenKwargs["return_var"]
    /\ GivenKwargs["return_cov"]
    /\ err = NoErr
    /\ DOMAIN result = {None}

-----------------------------------------------------------------------------
(* SpecAttrs: datasets_have_mlr_attributes on lists of datasets that lack  *)
(* an attribute or have a var_type that is not allowed                     *)

Without(dataset, key) == [k \in DOMAIN dataset \ {key} |-> dataset[k]]

AttrDatasets ==
    LET full == ("filename" :> 1) @@ Dataset("feature", "A", "m1")
    IN {full, [full EXCEPT !.var_type = "bogus"]}
       \cup {Without(full, key) : key \in {"filename", "tag", "var_type", "units"}}

AttrModes == {None, "only_missing", "only_var_type"}

InitAttrs ==
    /\ Idle
    /\ imported = [m \in Modules |-> "pending"]
    /\ \E n \in 0..MaxAttrDatasets, mode \in AttrModes :
          \E datasets \in [1..n -> AttrDatasets] :
             input = [datasets |-> datasets, mode |-> mode]

CheckAttributes ==
    /\ phase = "start"
    /\ \E r \in {datasets_have_mlr_attributes(input.datasets, input.mode)} :
          /\ err' = r.err
          /\ result' = r.output
    /\ last' = [op |-> "datasets_have_mlr_attributes"]
    /\ warnings' = {}
    /\ UNCHANGED <<heap, MODELS, MODEL_TYPE, imported, input, phase, self, fitted, saved,
                   everFitted>>

NextAttrs == CheckAttributes

SpecAttrs == InitAttrs /\ [][NextAttrs]_vars

HasNecessaryKeys(dataset) == \A k \in Range(NECESSARY_KEYS) : k \in DOMAIN dataset

HasVarType(dataset) ==
    "var_type" \in DOMAIN dataset /\ dataset["var_type"] \in Range(VAR_TYPES)

(* C10: datasets_have_mlr_attributes returns whether every dataset has     *)
(* the attributes its mode asks for: the necessary keys unless the mode is *)
(* 'only_var_type', a var_type of VAR_TYPES unless the mode is             *)
(* 'only_missing'; it never raises for a dataset that lacks attributes.    *)
C10_AttributesCheckedPerMode ==
    last.op = "datasets_have_mlr_attributes" =>
        /\ err = NoErr
        /\ result = \A i \in DOMAIN input.datasets :
                       /\ input.mode # "only_var_type" =>
                             HasNecessaryKeys(input.datasets[i])
                       /\ input.mode # "only_missing" =>
                             HasVarType(input.datasets[i])

(* only the var_type is asked for, every dataset has an allowed one, and   *)
(* the call raises KeyError for a dataset without 'filename'               *)
C10_Witness ==
    /\ last.op = "datasets_have_mlr_attributes"
    /\ input.mode = "only_var_type"
    /\ input.datasets # <<>>
    /\ \A i \in DOMAIN input.datasets : HasVarType(input.datasets[i])
    /\ err # NoErr
    /\ err.type = "KeyError"

-----------------------------------------------------------------------------
(* SpecInput: get_input_data on a recipe configuration.  The dicts of      *)
(* cfg['input_data'] are objects of the heap, input.input_data lists them  *)
(* in the order of the dict; the datasets of the ancestor files are built  *)
(* by io.netcdf_to_metadata.                                               *)

(* esmvaltool.diag_scripts.shared.io: metadata read from the ancestor files *)
netcdf_to_metadata(cfg) == cfg.ancestors

(* copy.deepcopy of a list of dicts: every dict becomes a new object *)
deepcopy(objects, objs) ==
    [refs |-> [i \in DOMAIN objects |-> Len(objs) + i],
     heap |-> objs \o objects]

(* the loop of get_input_data over the copies *)
RECURSIVE ValidLoop(_, _, _)
ValidLoop(refs, objs, valid_datasets) ==
    IF refs = <<>> THEN [err |-> NoErr, valid_datasets |-> valid_datasets,
                         warnings |-> {}]
    ELSE Let(datasets_have_mlr_attributes(<<objs[Head(refs)]>>, None), LAMBDA ok :
         IF ok.err # NoErr
         THEN [err |-> ok.err, valid_datasets |-> None, warnings |-> {}]
         ELSE Let(ValidLoop(Tail(refs), objs,
                            IF ok.output THEN Append(valid_datasets, Head(refs))
                            ELSE valid_datasets), LAMBDA rest :
              IF ok.output \/ rest.err # NoErr THEN rest
              ELSE [rest EXCEPT !.warnings = @ \cup {"Skipping file"}]))

get_input_data(cfg, objs) ==
    LET input_data == [i \in DOMAIN cfg.input_data |-> objs[cfg.input_data[i]]]
                         \o netcdf_to_metadata(cfg)
    IN Let(deepcopy(input_data, objs), LAMBDA copy :
       Let(ValidLoop(copy.refs, copy.heap, <<>>), LAMBDA loop :
          IF loop.err # NoErr
          THEN [err |-> loop.err, valid_datasets |-> None, heap |-> objs,
                warnings |-> {}]
          ELSE [err |-> NoErr, valid_datasets |-> loop.valid_datasets,
                heap |-> copy.heap,
                warnings |-> loop.warnings \cup
                    IF loop.valid_datasets = <<>>
                    THEN {"No valid input data found"} ELSE {}]))

InitInput ==
    /\ MODELS = <<>>
    /\ MODEL_TYPE = [c \in Classes |-> None]
    /\ imported = [m \in Modules |-> "pending"]
    /\ phase = "start" /\ self = NoSelf /\ fitted = FALSE /\ saved = {}
    /\ err = NoErr /\ warnings = {} /\ last = [op |-> "none"] /\ result = None
    /\ everFitted = FALSE
    /\ \E n \in 0..MaxAttrDatasets, m \in 0..MaxAncestors :
          \E datasets \in [1..n -> AttrDatasets], ancestors \in [1..m -> AttrDatasets] :
             /\ heap = datasets
             /\ input = [input_data |-> [i \in 1..n |-> i], ancestors |-> ancestors,
                         given |-> datasets]

GetInputData ==
    /\ phase = "start"
    /\ \E r \in {get_input_data(input, heap)} :
          /\ phase' = IF r.err = NoErr THEN "returned" ELSE "failed"
          /\ err' = r.err
          /\ result' = r.valid_datasets
          /\ heap' = r.heap
          /\ warnings' = r.warnings
    /\ last' = [op |-> "get_input_data"]
    /\ UNCHANGED <<MODELS, MODEL_TYPE, imported, input, self, fitted, saved,
                   everFitted>>

(* the caller changes an attribute of a returned dataset *)
ChangeReturned ==
    /\ phase = "returned"
    /\ \E i \in DOMAIN result, value \in {"changed"} :
          /\ heap[result[i]]["tag"] # value
          /\ heap' = [heap EXCEPT ![result[i]]["tag"] = value]
          /\ last' = [op |-> "change", dataset |-> i]
    /\ err' = NoErr
    /\ warnings' = {}
    /\ UNCHANGED <<MODELS, MODEL_TYPE, imported, input, phase, self, fitted, saved,
                   result, everFitted>>

NextInput == GetInputData \/ ChangeReturned

SpecInput == InitInput /\ [][NextInput]_vars

IsValid(dataset) == HasNecessaryKeys(dataset) /\ HasVarType(dataset)

(* the datasets get_input_data was given, those of cfg['input_data'] first *)
GivenDatasets == input.given \o input.ancestors

(* the returned list holds valid datasets only, the valid given datasets   *)
(* in their order, and the dicts of cfg['input_data'] are as they were     *)
ReturnedValidCopies ==
    /\ last.op = "get_input_data" =>
          /\ \A i \in DOMAIN result : IsValid(heap[result[i]])
          /\ [i \in DOMAIN result |-> heap[result[i]]]
                = SelectSeq(GivenDatasets, IsValid)
    /\ \A i \in DOMAIN result : \A j \in DOMAIN input.input_data :
          result[i] # input.input_data[j]
    /\ \A j \in DOMAIN input.input_data : heap[input.input_data[j]] = input.given[j]

(* C11: get_input_data returns the list of the given datasets (of          *)
(* cfg['input_data'], then of the ancestors) that have all necessary keys  *)
(* and an allowed var_type, in their order, as copies: every given dataset *)
(* that is valid is returned, and changing a returned dataset leaves the   *)
(* dicts of cfg['input_data'] as they were.                                *)
C11_ValidInputsReturnedAsCopies ==
    last.op \in {"get_input_data", "change"} =>
        /\ err = NoErr
        /\ phase = "returned"
        /\ ReturnedValidCopies

(* a valid dataset is given together with one without 'filename', and no   *)
(* list is returned                                                        *)
C11_Witness ==
    /\ last.op = "get_input_data"
    /\ \E i \in DOMAIN GivenDatasets : IsValid(GivenDatasets[i])
    /\ err.type = "KeyError"
    /\ result = None

(* whenever get_input_data returns, the returned list is as C11 says *)
C11_HoldsWhenReturned == phase = "returned" => ReturnedValidCopies

C11_WitnessReturned ==
    /\ last.op = "change"
    /\ Len(result) = 2
    /\ \E i \in DOMAIN GivenDatasets : ~IsValid(GivenDatasets[i])

-----------------------------------------------------------------------------
(* SpecCmor: cmorization of the ERA5 CMORizer.  The process pool is        *)
(* commented out in the source: the jobs run one after the other in the    *)
(* calling process, in the order of cfg['variables'] and of the sorted     *)
(* file names.  cfg, cfg['attributes'] and the dicts of cfg['variables']   *)
(* are objects of the heap; a job that raises ends cmorization.            *)

ShortNames == <<"tas", "pr", "tasmax">>  \* keys of cfg['variables'] in dict order

(* the dict of a variable in the configuration file *)
(* the file pattern of tas names the first file, the one of tasmax the     *)
(* second file, the one of pr ends in *                                    *)
VarDicts ==
    [tas |-> [file |-> [any |-> FALSE, name |-> 1], mip |-> "Amon", raw |-> "t2m"],
     pr |-> [file |-> [any |-> TRUE, name |-> 1], mip |-> "Lmon", raw |-> "tp"],
     tasmax |-> [file |-> [any |-> FALSE, name |-> 2], mip |-> "day", raw |-> "t2m"]]

(* Path.glob *)
Matches(name, pattern) == pattern.any \/ name = pattern.name

(* the raw variables a file of in_dir may hold *)
FileRaws == {{"t2m", "tp"}, {"tp"}, {"t2m"}}

(* variant: the job works on cfg['attributes'] itself *)
deepcopy_attributes_alias(objs) == [ref |-> "attributes", heap |-> objs]

(* copy.deepcopy(cfg['attributes']): a new object of the job *)
deepcopy_attributes(objs) ==
    [ref |-> "job_attributes",
     heap |-> ("job_attributes" :> objs["attributes"]) @@ objs]

(* one job; the objects of the job are dropped when it returns *)
_extract_variable(in_file, var, cfg, objs) ==
    Let(deepcopy_attributes(objs), LAMBDA copy :
    LET attributes == copy.ref
        h1 == [copy.heap EXCEPT ![attributes] = ("mip" :> objs[var]["mip"]) @@ @]
        loaded == objs[var]["raw"] \in in_file.raws
        cube == [var_name |-> objs[var]["short_name"], source |-> in_file.name,
                 attributes |-> h1[attributes]]
    IN [err |-> IF loaded THEN NoErr
                ELSE Raise("ConstraintMismatchError", "no cube found"),
        saved |-> IF loaded THEN cube ELSE NoDict,
        heap |-> [o \in DOMAIN objs |-> h1[o]]])

(* sorted(Path(in_dir).glob(var['file'])) *)
RECURSIVE SortedGlob(_, _)
SortedGlob(in_dir, pattern) ==
    IF in_dir = <<>> THEN <<>>
    ELSE (IF Matches(Head(in_dir).name, pattern) THEN <<Head(in_dir)>> ELSE <<>>)
            \o SortedGlob(Tail(in_dir), pattern)

InitCmor ==
    /\ MODELS = <<>>
    /\ MODEL_TYPE = [c \in Classes |-> None]
    /\ imported = [m \in Modules |-> "pending"]
    /\ phase = "start" /\ self = NoSelf /\ fitted = FALSE /\ saved = {}
    /\ err = NoErr /\ warnings = {} /\ last = [op |-> "none"] /\ result = <<>>
    /\ everFitted = FALSE
    /\ \E n \in 0..MaxVariables, k \in 0..MaxFiles :
          \E raws \in [1..k -> FileRaws] :
             /\ input = [in_dir |-> [i \in 1..k |-> [name |-> i, raws |-> raws[i]]],
                         variables |-> SubSeq(ShortNames, 1, n)]
             /\ heap = [v \in Range(SubSeq(ShortNames, 1, n)) |-> VarDicts[v]]
                       @@ [cfg |-> [attributes |-> "attributes", cmor_table |-> "CMIP6"],
                           attributes |-> [comment |-> "template",
                                           project_id |-> "OBS6"]]

(* cmorization up to the loop: the comment is formatted, cmor_table popped *)
Cmorization ==
    /\ phase = "start"
    /\ heap' = [heap EXCEPT !["attributes"]["comment"] = "formatted",
                            !["cfg"] = [attributes |-> "attributes"]]
    /\ phase' = "variables"
    /\ self' = [i |-> 1, files |-> <<>>]
    /\ last' = [op |-> "cmorization"]
    /\ UNCHANGED <<MODELS, MODEL_TYPE, imported, input, fitted, saved, err,
                   warnings, result, everFitted>>

(* the next item of cfg['variables'].items(), or the end of cmorization *)
NextVariable ==
    /\ phase = "variables"
    /\ IF self.i > Len(input.variables)
       THEN /\ phase' = "done"
            /\ last' = [op |-> "return"]
            /\ UNCHANGED <<heap, self>>
       ELSE LET short_name == input.variables[self.i]
            IN /\ heap' = [heap EXCEPT ![short_name] =
                              ("short_name" :> short_name) @@ @]
               /\ self' = [self EXCEPT
                              !.files = SortedGlob(input.in_dir, heap[short_name]["file"])]
               /\ phase' = "files"
               /\ last' = [op |-> "variable", var |-> short_name]
    /\ UNCHANGED <<MODELS, MODEL_TYPE, imported, input, fitted, saved, err,
                   warnings, result, everFitted>>

(* the next file of the variable: one job, or the end of the inner loop *)
ExtractVariable ==
    /\ phase = "files"
    /\ IF self.files = <<>>
       THEN /\ self' = [self EXCEPT !.i = @ + 1]
            /\ phase' = "variables"
            /\ last' = [op |-> "files done"]
            /\ UNCHANGED <<heap, err, result>>
       ELSE LET var == input.variables[self.i]
                in_file == Head(self.files)
            IN \E r \in {_extract_variable(in_file, var, "cfg", heap)} :
                  /\ heap' = r.heap
                  /\ err' = r.err
                  /\ result' = Append(result, [in_file |-> in_file.name, var |-> var,
                                               saved |-> r.saved])
                  /\ phase' = IF r.err = NoErr THEN "files" ELSE "failed"
                  /\ self' = [self EXCEPT !.files = Tail(@)]
                  /\ last' = [op |-> "_extract_variable", in_file |-> in_file.name,
                              var |-> var, before |-> heap]
    /\ UNCHANGED <<MODELS, MODEL_TYPE, imported, input, fitted, saved, warnings,
                   everFitted>>

NextCmor == Cmorization \/ NextVariable \/ ExtractVariable

SpecCmor == InitCmor /\ [][NextCmor]_vars

(* the jobs of cmorization: every variable with every file of its pattern *)
Jobs ==
    {<<job[1], job[2].name>> :
        job \in {j \in Range(input.variables) \X Range(input.in_dir) :
                    Matches(j[2].name, VarDicts[j[1]]["file"])}}

JobsRun == {<<result[i].var, result[i].in_file>> : i \in DOMAIN result}

(* what a job saves, computed from its file and variable alone *)
JobResult(var, in_file) ==
    [var_name |-> var, source |-> in_file,
     attributes |-> [comment |-> "formatted", project_id |-> "OBS6",
                     mip |-> VarDicts[var]["mip"]]]

-----------------------------------------------------------------------------
(* SpecPipeline: the constructor on two rows of training data and every    *)
(* combination of the options that _create_pipeline reads                  *)

PipelineCfgs ==
    {a @@ b @@ c @@ d @@ e @@ [test_size |-> 0] :
        a \in Options("imputation_strategy", {"remove", "mean"}),
        b \in Options("standardize_data", BOOLEAN),
        c \in Options("pca", BOOLEAN),
        d \in Options("cache_intermediate_results", BOOLEAN),
        e \in Options("n_jobs", {NJobsNone} \cup 1..MaxJobs)}

InitPipeline ==
    /\ Idle
    /\ imported = [m \in Modules |-> "pending"]
    /\ \E cfg \in PipelineCfgs :
          input = [CubeRows(MinRows, 0, {}, {}, {}) EXCEPT !.cfg = cfg]

SpecPipeline == InitPipeline /\ [][NextLoad]_vars

StepOrder == <<"pandas_to_numpy_converter", "imputer", "x_scaler", "pca", "final">>

Position(step) == CHOOSE i \in DOMAIN StepOrder : StepOrder[i] = step

HasStep(step) == step \in Range(self.clf.steps)

(* C13: the steps of the pipeline of a constructed model are steps of      *)
(* pandas_to_numpy_converter, imputer, x_scaler, pca, final in this order, *)
(* none twice; the converter is first, final is last; imputer is a step    *)
(* iff imputation_strategy is not 'remove', x_scaler iff standardize_data  *)
(* (default True), pca iff pca (default False); memory is the MLR work     *)
(* directory if cache_intermediate_results (default True) is set and       *)
(* n_jobs (default 1) is None or 1, and None otherwise.                    *)
C13_PipelineStepsInOrder ==
    phase = "constructed" =>
        LET steps == self.clf.steps
            n_jobs == GetOr(input.cfg, "n_jobs", 1)
        IN /\ \A i \in DOMAIN steps : steps[i] \in Range(StepOrder)
           /\ \A i, j \in DOMAIN steps :
                 i < j => Position(steps[i]) < Position(steps[j])
           /\ steps[1] = "pandas_to_numpy_converter"
           /\ steps[Len(steps)] = "final"
           /\ HasStep("imputer")
                 <=> GetOr(input.cfg, "imputation_strategy", "remove") # "remove"
           /\ HasStep("x_scaler") <=> GetOr(input.cfg, "standardize_data", TRUE)
           /\ HasStep("pca") <=> GetOr(input.cfg, "pca", FALSE)
           /\ (self.clf.memory # None)
                 <=> /\ GetOr(input.cfg, "cache_intermediate_results", TRUE)
                     /\ (n_jobs = NJobsNone \/ n_jobs = 1)
           /\ self.clf.memory \in {None, "mlr_work_dir"}

(* all five steps, and no caching since n_jobs is 2 *)
C13_Witness ==
    /\ phase = "constructed"
    /\ self.clf.steps = StepOrder
    /\ "cache_intermediate_results" \in DOMAIN input.cfg
    /\ input.cfg["cache_intermediate_results"]
    /\ GetOr(input.cfg, "n_jobs", 1) = 2
    /\ self.clf.memory = None

-----------------------------------------------------------------------------
(* SpecAnomaly: calculate_anomalies of the MLR preprocessing on lists of   *)
(* datasets as main hands them over: every dataset has 'ref' (set by       *)
(* cache_cube) and its cube, a standard error has the key 'stderr' (set by *)
(* add_standard_errors).  A cube is the sequence of its cells.             *)

RECURSIVE Sum(_)
Sum(cells) == IF cells = <<>> THEN 0 ELSE Head(cells) + Sum(Tail(cells))

(* np.ma.average with the weights of cells of equal area *)
Average(cells) == Sum(cells) \div Len(cells)

(* for a scalar cube (shape ()) both branches give the same base *)
_get_anomaly_base(cfg, cube) ==
    IF GetOr(cfg["anomaly"], "mean", FALSE)
    THEN [i \in DOMAIN cube |-> Average(cube)]
    ELSE cube

(* the keys of the reference that the text of data['anomaly'] reads *)
AnomalyKeys == <<"short_name", "dataset", "project", "exp", "start_year", "end_year">>

(* variant: of several references the first one is taken *)
UniqueReference_first(ref) == IF ref = <<>> THEN "none" ELSE "one"

(* the checks of the number of references found *)
UniqueReference(ref) ==
    IF ref = <<>> THEN "none" ELSE IF Len(ref) > 1 THEN "many" ELSE "one"

(* the body of the loop for one dataset of regular_data *)
AnomalyOf(cfg, metadata, ref_data, data) ==
    IF "stderr" \in DOMAIN data THEN [err |-> NoErr, data |-> data, warnings |-> {}]
    ELSE LET kwargs == [m \in {k \in Range(metadata) : k \in DOMAIN data} |-> data[m]]
         IN Let(select_metadata(ref_data, kwargs), LAMBDA ref :
            IF UniqueReference(ref) = "none"
            THEN [err |-> NoErr, data |-> data, warnings |-> {"No reference found"}]
            ELSE IF UniqueReference(ref) = "many"
            THEN [err |-> NoErr, data |-> data,
                  warnings |-> {"Reference data is not unique"}]
            ELSE LET base == _get_anomaly_base(cfg, ref[1]["cube"])
                     named == [data EXCEPT
                         !.cube = [i \in DOMAIN @ |-> @[i] - base[i]],
                         !.standard_name = @ \o "_anomaly",
                         !.short_name = @ \o "_anomaly",
                         !.long_name = @ \o " (anomaly)"]
                     missing == SelectSeq(AnomalyKeys, LAMBDA k : k \notin DOMAIN ref[1])
                 IN IF missing # <<>>
                    THEN [err |-> Raise("KeyError", Head(missing)), data |-> named,
                          warnings |-> {}]
                    ELSE [err |-> NoErr, warnings |-> {},
                          data |-> ("anomaly" :> [k \in Range(AnomalyKeys) |-> ref[1][k]])
                                      @@ named])

(* the loop over regular_data; the dicts are changed in place, so the list *)
(* holds the changes also when the loop ends with an exception            *)
RECURSIVE AnomalyLoop(_, _, _, _, _)
AnomalyLoop(cfg, metadata, ref_data, input_data, i) ==
    IF i > Len(input_data) THEN [err |-> NoErr, input_data |-> input_data,
                                 warnings |-> {}]
    ELSE IF ~(input_data[i]["ref"] = FALSE)
    THEN AnomalyLoop(cfg, metadata, ref_data, input_data, i + 1)
    ELSE Let(AnomalyOf(cfg, metadata, ref_data, input_data[i]), LAMBDA one :
         IF one.err # NoErr
         THEN [err |-> one.err, input_data |-> [input_data EXCEPT ![i] = one.data],
               warnings |-> {}]
         ELSE Let(AnomalyLoop(cfg, metadata, ref_data,
                              [input_data EXCEPT ![i] = one.data], i + 1), LAMBDA rest :
              [rest EXCEPT !.warnings = @ \cup one.warnings]))

calculate_anomalies(cfg, input_data) ==
    IF "anomaly" \notin DOMAIN cfg \/ DOMAIN cfg["anomaly"] = {}
    THEN [err |-> NoErr, input_data |-> input_data, warnings |-> {}]
    ELSE LET metadata == GetOr(cfg["anomaly"], "matched_by", <<>>)
             ref_data == select_metadata(input_data, [ref |-> TRUE])
         IN AnomalyLoop(cfg, metadata, ref_data, input_data, 1)

AnomalyData(ref, dataset, extra) ==
    extra @@ [ref |-> ref, dataset |-> dataset, project |-> "CMIP5",
              short_name |-> "tas", standard_name |-> "air_temperature",
              long_name |-> "Temperature", start_year |-> "2000", end_year |-> "2005",
              cube |-> IF ref THEN <<1, 3>> ELSE <<5, 7>>]

Exp == [exp |-> "historical"]

StdErr == [stderr |-> TRUE]

AnomalyDatasets ==
    {AnomalyData(TRUE, "m1", Exp), AnomalyData(TRUE, "m1", <<>>),
     AnomalyData(TRUE, "m2", Exp), AnomalyData(TRUE, "m1", Exp @@ StdErr),
     AnomalyData(FALSE, "m1", Exp), AnomalyData(FALSE, "m1", <<>>),
     AnomalyData(FALSE, "m2", Exp), AnomalyData(FALSE, "m2", <<>>),
     AnomalyData(FALSE, "m1", Exp @@ StdErr)}

AnomalyCfgs ==
    {<<>>, [anomaly |-> <<>>], [anomaly |-> [mean |-> TRUE]],
     [anomaly |-> [matched_by |-> <<"dataset">>]],
     [anomaly |-> [matched_by |-> <<"dataset", "exp">>, mean |-> TRUE]]}

InitAnomaly ==
    /\ Idle
    /\ imported = [m \in Modules |-> "pending"]
    /\ \E n \in 0..MaxAnomalyDatasets, cfg \in AnomalyCfgs :
          \E input_data \in [1..n -> AnomalyDatasets] :
             input = [cfg |-> cfg, input_data |-> input_data]

CalculateAnomalies ==
    /\ phase = "start"
    /\ \E r \in {calculate_anomalies(input.cfg, input.input_data)} :
          /\ phase' = IF r.err = NoErr THEN "returned" ELSE "failed"
          /\ err' = r.err
          /\ result' = r.input_data
          /\ warnings' = r.warnings
    /\ last' = [op |-> "calculate_anomalies"]
    /\ UNCHANGED <<heap, MODELS, MODEL_TYPE, imported, input, self, fitted, saved,
                   everFitted>>

NextAnomaly == CalculateAnomalies

SpecAnomaly == InitAnomaly /\ [][NextAnomaly]_vars

AnomalyGiven == "anomaly" \in DOMAIN input.cfg /\ DOMAIN input.cfg["anomaly"] # {}

MatchedBy == IF AnomalyGiven THEN GetOr(input.cfg["anomaly"], "matched_by", <<>>)
             ELSE <<>>

(* the reference datasets that match dataset i on the attributes it has *)
ReferencesOf(i) ==
    LET data == input.input_data[i]
    IN {j \in DOMAIN input.input_data :
           /\ input.input_data[j]["ref"]
           /\ \A m \in Range(MatchedBy) :
                 m \in DOMAIN data =>
                    (m \in DOMAIN input.input_data[j]
                        /\ input.input_data[j][m] = data[m])}

ToChange(i) ==
    LET data == input.input_data[i]
    IN /\ AnomalyGiven
       /\ ~data["ref"]
       /\ "stderr" \notin DOMAIN data
       /\ Cardinality(ReferencesOf(i)) = 1

BaseOf(j) ==
    LET cube == input.input_data[j]["cube"]
    IN IF GetOr(input.cfg["anomaly"], "mean", FALSE)
       THEN [c \in DOMAIN cube |-> Sum(cube) \div Len(cube)] ELSE cube

IsAnomalyOf(out, data, j) ==
    /\ out["cube"] = [c \in DOMAIN data["cube"] |-> data["cube"][c] - BaseOf(j)[c]]
    /\ out["standard_name"] = data["standard_name"] \o "_anomaly"
    /\ out["short_name"] = data["short_name"] \o "_anomaly"
    /\ out["long_name"] = data["long_name"] \o " (anomaly)"

(* C14: calculate_anomalies leaves every dataset as it was unless the      *)
(* option 'anomaly' is given (and not empty), the dataset is not a         *)
(* reference, has no key 'stderr' and exactly one reference dataset        *)
(* matches it on the 'matched_by' attributes the dataset has; such a       *)
(* dataset gets the base of its reference subtracted from its cube and     *)
(* the anomaly suffixes on standard_name, short_name and long_name.  The   *)
(* call raises only KeyError, for a reference that lacks an attribute of   *)
(* the text of data['anomaly'], and then the datasets after the one being  *)
(* changed are left as they were.                                          *)
C14_AnomalyOnlyWithUniqueReference ==
    last.op = "calculate_anomalies" =>
        /\ Len(result) = Len(input.input_data)
        /\ ~AnomalyGiven => (result = input.input_data /\ err = NoErr)
        /\ \A i \in DOMAIN result :
              /\ ~ToChange(i) => result[i] = input.input_data[i]
              /\ (ToChange(i) /\ err = NoErr) =>
                    \E j \in ReferencesOf(i) :
                       IsAnomalyOf(result[i], input.input_data[i], j)
              /\ (ToChange(i) /\ err # NoErr) =>
                    \/ result[i] = input.input_data[i]
                    \/ \E j \in ReferencesOf(i) :
                          IsAnomalyOf(result[i], input.input_data[i], j)
        /\ err # NoErr =>
              /\ err.type = "KeyError"
              /\ \E i \in DOMAIN result :
                    /\ ToChange(i)
                    /\ \E j \in ReferencesOf(i) :
                          err.msg \notin DOMAIN input.input_data[j]

(* one dataset is changed, one has two matching references, one has no    *)
(* matching reference... and the call returns                              *)
C14_Witness ==
    /\ last.op = "calculate_anomalies" /\ err = NoErr
    /\ \E i, k \in DOMAIN result :
          /\ ToChange(i) /\ result[i] # input.input_data[i]
          /\ ~input.input_data[k]["ref"] /\ "stderr" \notin DOMAIN input.input_data[k]
          /\ Cardinality(ReferencesOf(k)) # 1
          /\ result[k] = input.input_data[k]

-----------------------------------------------------------------------------
(* SpecDerive: DerivedVariable.calculate of gtfgco2.  The fgco2 cube is a  *)
(* sequence of time steps, each the sequence of its cells (NaN: masked);   *)
(* the area cube is the sequence of the areas of the cells.  A cube that   *)
(* is not in cubes is the empty sequence (no time step: no fgco2 cube).    *)

NoCube == <<>>

(* total_flux.sum() of one time step: the sum over the unmasked cells, the *)
(* masked constant (NaN once in the numpy array) if every cell is masked   *)
RECURSIVE MaskedSum(_, _)
MaskedSum(flux, area) ==
    IF flux = <<>> THEN NaN
    ELSE LET rest == MaskedSum(Tail(flux), Tail(area))
         IN IF Head(flux) = NaN THEN rest
            ELSE Head(flux) * Head(area) + (IF rest = NaN THEN 0 ELSE rest)

calculate_total_flux(fgco2_cube, cube_area) ==
    [time_itr \in DOMAIN fgco2_cube |-> MaskedSum(fgco2_cube[time_itr], cube_area)]

(* extract_strict raises ConstraintMismatchError for a cube that is not in *)
(* cubes; for the area cube the error is caught and passed, which leaves   *)
(* the local name cube_area unbound at the call of calculate_total_flux    *)
calculate(cubes) ==
    IF cubes.fgco2 = NoCube
    THEN [err |-> Raise("ConstraintMismatchError", "fgco2"), result |-> NoCube]
    ELSE IF cubes.cell_area = NoCube
    THEN [err |-> Raise("UnboundLocalError", "cube_area"), result |-> NoCube]
    ELSE [err |-> NoErr,
          result |-> calculate_total_flux(cubes.fgco2, cubes.cell_area)]

FluxValues == {NaN, 1, 2}

AreaValues == {1, 3}

InitDerive ==
    /\ Idle
    /\ imported = [m \in Modules |-> "pending"]
    /\ \E times \in 0..MaxTimes, with_area \in BOOLEAN :
          \E fgco2 \in [1..times -> [1..MaxCells -> FluxValues]],
             cell_area \in [1..MaxCells -> AreaValues] :
             input = [fgco2 |-> fgco2,
                      cell_area |-> IF with_area THEN cell_area ELSE NoCube]

Calculate ==
    /\ phase = "start"
    /\ \E r \in {calculate(input)} :
          /\ phase' = IF r.err = NoErr THEN "returned" ELSE "failed"
          /\ err' = r.err
          /\ result' = r.result
    /\ last' = [op |-> "calculate"]
    /\ warnings' = {}
    /\ UNCHANGED <<heap, MODELS, MODEL_TYPE, imported, input, self, fitted, saved,
                   everFitted>>

NextDerive == Calculate

SpecDerive == InitDerive /\ [][NextDerive]_vars

Unmasked(t) == {c \in DOMAIN input.fgco2[t] : input.fgco2[t][c] # NaN}

RECURSIVE SumOver(_, _)
SumOver(cells, t) ==
    IF cells = {} THEN 0
    ELSE LET c == CHOOSE x \in cells : TRUE
         IN input.fgco2[t][c] * input.cell_area[c] + SumOver(cells \ {c}, t)

(* one value per time step: the sum over the unmasked cells of flux times  *)
(* area (a time step without an unmasked cell has the masked value)        *)
TotalFluxPerTimeStep ==
    /\ err = NoErr
    /\ DOMAIN result = DOMAIN input.fgco2
    /\ \A t \in DOMAIN result :
          result[t] = IF Unmasked(t) = {} THEN NaN ELSE SumOver(Unmasked(t), t)

(* C15: with the fgco2 cube in cubes, calculate does not fail with an      *)
(* error about an undefined area cube when the cell_area cube is missing,  *)
(* and when both cubes are there the result holds one value per time step  *)
(* of the fgco2 cube, the sum over the unmasked cells of flux times area.  *)
C15_MissingAreaCubeHandled ==
    (last.op = "calculate" /\ input.fgco2 # NoCube) =>
        IF input.cell_area = NoCube
        THEN err.type \notin {"UnboundLocalError", "NameError"}
        ELSE TotalFluxPerTimeStep

(* the fgco2 cube is given, the area cube is not, and calculate fails on   *)
(* the unbound name cube_area                                              *)
C15_Witness ==
    /\ last.op = "calculate"
    /\ input.fgco2 # NoCube /\ input.cell_area = NoCube
    /\ err.type = "UnboundLocalError"

(* with both cubes the result is the total flux per time step *)
C15_TotalFluxWithBothCubes ==
    (last.op = "calculate" /\ input.fgco2 # NoCube /\ input.cell_area # NoCube)
        => TotalFluxPerTimeStep

C15_WitnessBothCubes ==
    /\ last.op = "calculate" /\ err = NoErr
    /\ \E t \in DOMAIN result : Cardinality(Unmasked(t)) = 1
    /\ \E t \in DOMAIN result : Cardinality(Unmasked(t)) = 2

=============================================================================
